---- MODULE Spec2Model ----
(***************************************************************************)
(* pdf-watermark-remover: the PDF -> images -> web processing -> PDF       *)
(* pipeline (pdf_processor_complete.py, rsc/image_watermark_remover.py,    *)
(* rsc/images_to_pdf.py, rsc/pdf_to_images.py) and the desktop front end   *)
(* with its worker thread (clean_gui_app.py).                              *)
(*                                                                         *)
(* File names are sequences of character codes, so that the basename sort  *)
(* of convert_images_to_pdf and the name built by the download rename are  *)
(* computed as the code computes them.                                     *)
(***************************************************************************)
EXTENDS Integers, Sequences, FiniteSets, TLC

\* ------------------------------------------------------------------ bounds
MaxPdfs == 2
MaxPages == 2
MaxRuns == 2
MaxGuiPages == 2
MaxImages == 2
MaxDlPages == 2
MaxPolls == 2
MaxMsgs == 4
MaxSessions == 3
MaxWtImages == 2
SecondsPerStep == 30

\* ------------------------------------------------------- strings as codes
NoneVal == <<>>

STR_processed == <<112, 114, 111, 99, 101, 115, 115, 101, 100, 95>>
STR_page == <<95, 112, 97, 103, 101, 95>>
EXT_png == <<46, 112, 110, 103>>
EXT_jpg == <<46, 106, 112, 103>>

\* names the web site may give to a downloaded file: "a" (no suffix), "z.jpg"
SiteNames == { <<97>>, <<122>> \o EXT_jpg }

\* Python str comparison: code point by code point, a proper prefix is smaller
RECURSIVE StrLess(_, _)
StrLess(a, b) ==
    IF a = <<>> THEN b # <<>>
    ELSE IF b = <<>> THEN FALSE
    ELSE IF Head(a) # Head(b) THEN Head(a) < Head(b)
    ELSE StrLess(Tail(a), Tail(b))

\* decimal digits of n, most significant first
RECURSIVE Digits(_)
Digits(n) == IF n < 10 THEN <<48 + n>> ELSE Digits(n \div 10) \o <<48 + (n % 10)>>

\* the format spec {i:03d}: at least three digits, padded with zeros
Pad3(n) ==
    LET d == Digits(n)
    IN  IF Len(d) >= 3 THEN d ELSE [k \in 1..(3 - Len(d)) |-> 48] \o d

\* pathlib: the index of the last dot that starts a suffix (0 when there is none)
RECURSIVE LastDot(_, _)
LastDot(s, k) ==
    IF k <= 1 THEN 0
    ELSE IF s[k] = 46 THEN (IF k = Len(s) THEN 0 ELSE k)
    ELSE LastDot(s, k - 1)

\* Path(name).suffix and Path(name).stem
Suffix(s) == LET k == LastDot(s, Len(s)) IN IF k = 0 THEN <<>> ELSE SubSeq(s, k, Len(s))
Stem(s) == LET k == LastDot(s, Len(s)) IN IF k = 0 THEN s ELSE SubSeq(s, 1, k - 1)

\* the stem of PDF number p ("a.pdf", "b.pdf", ...): Path order is the order of p
PdfStem(p) == <<96 + p>>

\* pdf_to_images: f"{pdf_name}_page_{i:03d}.{fmt}"
ImageFilename(p, i) == PdfStem(p) \o STR_page \o Pad3(i) \o EXT_png

\* download_processed_image: f"processed_{base_name}{downloaded_ext}"
NewName(original_filename, downloaded_file) ==
    LET base_name == Stem(original_filename)
        original_ext == Suffix(original_filename)
        downloaded_ext == IF Suffix(downloaded_file) # <<>> THEN Suffix(downloaded_file)
                          ELSE original_ext
    IN  STR_processed \o base_name \o downloaded_ext

\* sorted(image_paths, key=basename): a stable sort (all paths share one folder)
RECURSIVE InsertSorted(_, _)
InsertSorted(x, s) ==
    IF s = <<>> THEN <<x>>
    ELSE IF StrLess(x, Head(s)) THEN <<x>> \o s
    ELSE <<Head(s)>> \o InsertSorted(x, Tail(s))

RECURSIVE SortedByBasename(_)
SortedByBasename(s) ==
    IF s = <<>> THEN <<>>
    ELSE InsertSorted(s[Len(s)], SortedByBasename(SubSeq(s, 1, Len(s) - 1)))

RECURSIVE SelectSeqBy(_, _)
SelectSeqBy(s, keep) ==
    IF s = <<>> THEN <<>>
    ELSE (IF Head(s) \in keep THEN <<Head(s)>> ELSE <<>>) \o SelectSeqBy(Tail(s), keep)

\* ---------------------------------------------------------------- state
VARIABLES
    PDF2IMAGE_AVAILABLE,  \* pdf_to_images: whether pdf2image could be imported
    pdf_files,            \* process_multiple_pdfs: the matched PDFs (listing, then sorted)
    bi,                   \* process_multiple_pdfs: the loop index i (0 before the loop)
    results,              \* process_multiple_pdfs: the records appended so far
    successful,           \* process_multiple_pdfs: PDFs counted as done
    failed,               \* process_multiple_pdfs: PDFs counted as failed
    pc,                   \* position in process_multiple_pdfs / process_single_pdf
    pdf_exists,           \* os.path.exists(pdf_path) at entry of process_single_pdf
    original_size,        \* os.path.getsize(pdf_path): 0 for an empty file, 1 otherwise
    temp_folder,          \* "unset", "failed", "created" or "removed"
    image_paths,          \* the rasterized page images (file names in temp_folder)
    watermark_remover,    \* self.watermark_remover is set
    driver,               \* ImageWatermarkRemover.driver: "none" or "open"
    processed_images,     \* the list built by process_multiple_images
    chrome,               \* result of setup_chrome: "unset", "ok", "failed"
    success,              \* result of convert_images_to_pdf: "unset", "yes", "no"
    ret,                  \* process_single_pdf: "unset", "none" (None) or "path"
    folder,               \* files of temp_folder (= download folder): [name, page]
    outputs,              \* output folder: the PDFs whose NoWatermark_<stem>.pdf exists
    final_pdf,            \* the source pages shown by the PDF this call saved (<<>>: none)
    steps,                \* the PASO numbers started by the current process_single_pdf
    ii,                   \* process_multiple_images: the loop index i
    ipc,                  \* position in process_single_image
    img,                  \* process_single_image: steps run and step results of this image
    outcomes,             \* process_multiple_images: one record per image attempted
    \* find_upload_input, run on its own
    fu_site,              \* what the page answers for each candidate selector
    fu_k,                 \* the selector the loop is at
    fu_tried,             \* the selectors probed so far, in order
    fu_ret,               \* "running", or the returned element: 0 for None, else its selector
    \* clean_gui_app: PDFWatermarkGUI and its worker threads
    g_processing,         \* PDFWatermarkGUI.processing
    start_btn,            \* state of the start button: "normal" or "disabled"
    cancel_btn,           \* state of the cancel button
    progress_var,         \* the progress text
    processor,            \* PDFWatermarkGUI.processor: 0 for None, else the run that made it
    proc_processing,      \* PDFProcessor.processing of the processor made by each run
    runs,                 \* runs started so far
    workers,              \* the worker thread of each run: position and locals
    after_queue,          \* callbacks scheduled with root.after(0, ...), oldest first
    hist,                 \* per run: what happened (cancel, submissions, dialogs)
    \* pdf_to_images.convert_pdf_to_images (the module-level function), run on its own
    cv_pc,                \* position in the call
    cv_pdf_exists,        \* os.path.exists(pdf_path)
    cv_output_folder,     \* whether the caller gave output_folder
    cv_available,         \* PDF2IMAGE_AVAILABLE
    cv_pages,             \* the pages the converter gives for the PDF
    cv_temp_folder,       \* converter.temp_folder: "none", "created", "removed"
    cv_dpi,               \* self.dpi
    cv_format,            \* self.image_format: "PNG" or "JPEG"
    cv_disk,              \* the pages whose image file exists in the folder used
    cv_k,                 \* the page being saved
    cv_image_paths,       \* image_paths built so far (pages)
    cv_ret,               \* the list returned
    \* images_to_pdf.ImagesToPDF.convert_images_to_pdf, run on its own
    ci_pc,                \* position in the call
    ci_pil,               \* PIL_AVAILABLE
    ci_image_paths,       \* the argument image_paths (file names)
    ci_files,             \* each name: "missing", "unopenable" or "ok"
    ci_valid_paths,       \* valid_paths
    ci_k,                 \* index into valid_paths of the open loop
    ci_processed,         \* processed_images: the names of the images opened
    ci_save,              \* first_image.save: "unset", "written", "raised", "nothing"
    ci_pdf,               \* the pages of the PDF written (names), <<>> when none
    ci_ret,               \* "unset", "true" or "false"
    \* rsc/main.py: PDFWatermarkRemover (the packaged application)
    ma_selected_file,     \* self.selected_file: 0 for None, else the PDF chosen
    ma_processing,        \* self.processing
    ma_process_btn,       \* state of process_btn: "normal" or "disabled"
    ma_progress,          \* the progress bar: "stopped" or "running"
    ma_pc,                \* position of the process_pdf thread ("idle": no thread)
    ma_output_dir,        \* whether ProcessedPDFs exists in the working directory
    ma_processed,         \* the PDFs whose processed_<name> is in ProcessedPDFs
    ma_msg,               \* the last message box shown ("none" before the first)
    ma_log,               \* lines the process_pdf threads have written to the log widget
    ma_output_file,       \* process_pdf: the PDF named by output_file (0 before line 131)
    ma_runs,              \* runs started so far
    \* download_processed_image over the pages of one process_multiple_images call
    dl_folder,            \* the download folder: [name, click] (click 0: not a download)
    dl_i,                 \* the page whose download step runs
    dl_pc,                \* "listing", "click", "poll", "returned" or "done"
    dl_files_before,      \* files_before
    dl_polls,             \* iterations of the wait loop left before download_timeout
    dl_results,           \* per page: the file taken (src), the path returned, its click
    \* clean_gui_app: PDFProcessor.process_pdf with its files, run without a cancel
    gp_pc,                \* "setup", "loop", "final" or "returned"
    gp_image_paths,       \* image_paths: the page images (names in temp_folder)
    gp_i,                 \* the loop index i
    gp_folder,            \* the files of temp_folder: [name, page]
    gp_processed_images,  \* processed_images
    gp_pdf,               \* the source pages shown by the PDF written (<<>>: none)
    gp_ret,               \* "unset", "none" or "path"
    \* clean_gui_app: the log queue and the log widget
    lg_queue,             \* self.log_queue, oldest first
    lg_text,              \* the lines inserted into log_text, in order of insertion
    lg_pc,                \* the GUI thread: "idle" (the timer is pending) or "draining"
    lg_sent,              \* every message passed to log_message, in order of the put
    \* ImageWatermarkRemover as an object, and process_images_online
    rm_pc,                \* "object" (a caller holds it) or the position in process_images_online
    rm_driver,            \* self.driver: 0 for None, or the number of the session
    rm_wait,              \* self.wait: 0 for None, or the session it waits on
    rm_n,                 \* Chrome sessions started so far
    rm_live,              \* sessions started on which quit() was never called
    rm_stuck,             \* sessions whose quit() raised
    rm_body,              \* how the body of the with block ended
    rm_ret,               \* process_images_online: "unset", "list", "empty" or "raised"
    \* process_multiple_images against a site that answers when it likes
    wt_pc,                \* position in process_multiple_images / process_single_image
    wt_n,                 \* len(image_paths)
    wt_i,                 \* the image being processed, from 1
    wt_iters,             \* iterations of the for loop completed
    wt_processed,         \* len(processed_images)
    wt_k,                 \* position in the selector list being probed
    wt_elapsed,           \* seconds spent in the current wait
    wt_match,             \* the download selector the site's button matches, 0 for none
    wt_ready,             \* the site's button is clickable
    wt_shown,             \* processing indicators found displayed
    wt_waited,            \* waits for an indicator to disappear that have ended
    wt_tried,             \* download selectors probed, in order
    wt_button,            \* wait_for_processing_completion: -1 running, 0 None, or selector
    wt_ret                \* process_single_image: "unset", "none" or "path"

pvars == <<PDF2IMAGE_AVAILABLE, pdf_files, bi, results, successful, failed, pc, pdf_exists,
           original_size,
           temp_folder, image_paths, watermark_remover, driver, processed_images,
           chrome, success, ret, folder, outputs, final_pdf, steps, ii, ipc, img, outcomes>>

uvars == <<fu_site, fu_k, fu_tried, fu_ret>>

gvars == <<g_processing, start_btn, cancel_btn, progress_var, processor, proc_processing,
           runs, workers, after_queue, hist>>

cvvars == <<cv_pc, cv_pdf_exists, cv_output_folder, cv_available, cv_pages,
            cv_temp_folder, cv_disk, cv_k, cv_image_paths, cv_ret, cv_dpi, cv_format>>

civars == <<ci_pc, ci_pil, ci_image_paths, ci_files, ci_valid_paths, ci_k, ci_processed,
            ci_save, ci_pdf, ci_ret>>

mavars == <<ma_selected_file, ma_processing, ma_process_btn, ma_progress, ma_pc,
            ma_output_dir, ma_processed, ma_msg, ma_log, ma_output_file, ma_runs>>

dlvars == <<dl_folder, dl_i, dl_pc, dl_files_before, dl_polls, dl_results>>

gpvars == <<gp_pc, gp_image_paths, gp_i, gp_folder, gp_processed_images, gp_pdf, gp_ret>>

lgvars == <<lg_queue, lg_text, lg_pc, lg_sent>>

rmvars == <<rm_pc, rm_driver, rm_wait, rm_n, rm_live, rm_stuck, rm_body, rm_ret>>

wtvars == <<wt_pc, wt_n, wt_i, wt_iters, wt_processed, wt_k, wt_elapsed, wt_match, wt_ready,
            wt_shown, wt_waited, wt_tried, wt_button, wt_ret>>

\* the functions and the application that are run on their own
tvars == <<cvvars, civars, mavars, dlvars, gpvars, lgvars, rmvars, wtvars>>

vars == <<pvars, uvars, gvars, tvars>>

\* the locals of one process_single_pdf call (everything but the batch state)
callvars == <<pdf_exists, original_size, temp_folder, image_paths, processed_images,
              chrome, success, ret, folder, final_pdf, steps, ii, ipc, img, outcomes>>

PdfIds == 1..MaxPdfs

\* Path(input_folder).glob(pattern): the matched PDFs in any order, none twice
Listings ==
    { s \in UNION { [1..n -> PdfIds] : n \in 0..MaxPdfs } :
        \A i, j \in 1..Len(s) : i # j => s[i] # s[j] }

\* pdf_files.sort(): paths in ascending order (and the listing left as glob gave it)
SortPathsOmitted(s) == s

RECURSIVE InsertPath(_, _)
InsertPath(x, s) ==
    IF s = <<>> THEN <<x>>
    ELSE IF x < Head(s) THEN <<x>> \o s
    ELSE <<Head(s)>> \o InsertPath(x, Tail(s))

RECURSIVE SortPaths(_)
SortPaths(s) ==
    IF s = <<>> THEN <<>>
    ELSE InsertPath(s[Len(s)], SortPaths(SubSeq(s, 1, Len(s) - 1)))

NewImg == [steps |-> <<>>, nav |-> "unset", upload |-> "unset", button |-> "unset"]

Names(fs) == { f.name : f \in fs }
FileOf(fs, n) == CHOOSE f \in fs : f.name = n

PInit ==
    /\ PDF2IMAGE_AVAILABLE \in BOOLEAN
    /\ pdf_files \in Listings
    /\ bi = 0
    /\ results = <<>>
    /\ successful = 0
    /\ failed = 0
    /\ pc = "mp_start"
    /\ pdf_exists = FALSE
    /\ original_size = 1
    /\ temp_folder = "unset"
    /\ image_paths = <<>>
    /\ watermark_remover = FALSE
    /\ driver = "none"
    /\ processed_images = <<>>
    /\ chrome = "unset"
    /\ success = "unset"
    /\ ret = "unset"
    /\ folder = {}
    /\ outputs = {}
    /\ final_pdf = <<>>
    /\ steps = <<>>
    /\ ii = 0
    /\ ipc = "idle"
    /\ img = NewImg
    /\ outcomes = <<>>

\* ------------------------------------------------------ find_upload_input
\* the candidate selectors, in the order of the list `selectors`
NumSelectors == 6

\* what one probe of the page gives: no element within the wait, another
\* exception, an element that is disabled, an element that is enabled
ProbeOutcomes == {"timeout", "error", "disabled", "enabled"}

UploadPages == [1..NumSelectors -> ProbeOutcomes]

\* `if element and element.is_enabled()` (and the test without is_enabled)
ProbeQualifiesNoEnabledCheck(o) == o \in {"enabled", "disabled"}
ProbeQualifies(o) == o = "enabled"

\* the whole loop: the selector whose element is returned, 0 for None
RECURSIVE FindFrom(_, _)
FindFrom(site, k) ==
    IF k > NumSelectors THEN 0
    ELSE IF ProbeQualifies(site[k]) THEN k
    ELSE FindFrom(site, k + 1)

FindUploadInput(site) == FindFrom(site, 1)

UInit ==
    /\ fu_site \in UploadPages
    /\ fu_k = 1
    /\ fu_tried = <<>>
    /\ fu_ret = -1

UIdle ==
    /\ fu_site = [k \in 1..NumSelectors |-> "timeout"]
    /\ fu_k = 1
    /\ fu_tried = <<>>
    /\ fu_ret = -1

\* one iteration that returns the element
FuFound ==
    /\ fu_ret = -1
    /\ fu_k <= NumSelectors
    /\ ProbeQualifies(fu_site[fu_k])
    /\ fu_tried' = Append(fu_tried, fu_k)
    /\ fu_ret' = fu_k
    /\ UNCHANGED <<fu_site, fu_k, pvars, gvars, tvars>>

\* one iteration that goes on to the next selector (timeout, exception, disabled)
FuSkip ==
    /\ fu_ret = -1
    /\ fu_k <= NumSelectors
    /\ ~ProbeQualifies(fu_site[fu_k])
    /\ fu_tried' = Append(fu_tried, fu_k)
    /\ fu_k' = fu_k + 1
    /\ UNCHANGED <<fu_site, fu_ret, pvars, gvars, tvars>>

\* the list is exhausted: return None
FuNone ==
    /\ fu_ret = -1
    /\ fu_k > NumSelectors
    /\ fu_ret' = 0
    /\ UNCHANGED <<fu_site, fu_k, fu_tried, pvars, gvars, tvars>>

UNext == FuFound \/ FuSkip \/ FuNone

\* ------------------------------------------------- process_single_image
\* pages the pipeline meets when it looks for the upload input
PipelinePages ==
    { [k \in 1..NumSelectors |-> "timeout"],
      [k \in 1..NumSelectors |-> IF k = 1 THEN "enabled" ELSE "timeout"],
      [k \in 1..NumSelectors |-> IF k = 1 THEN "disabled" ELSE IF k = 2 THEN "error"
                                 ELSE IF k = 3 THEN "enabled" ELSE "timeout"] }

\* process_multiple_images: `if processed_image: processed_images.append(...)`
KeepResult(list, r) == IF r # NoneVal THEN Append(list, r) ELSE list

\* process_multiple_images: the for loop goes on to the next image whatever r is
\* (and a loop that a failed image would end)
NextImageStopOnFailure(i, r, n) == IF r = NoneVal THEN n + 1 ELSE i + 1
NextImage(i, r, n) == i + 1

\* process_single_image returns r to process_multiple_images, which records it
PsiReturn(r) ==
    /\ processed_images' = KeepResult(processed_images, r)
    /\ outcomes' = Append(outcomes, [image |-> image_paths[ii], result |-> r])
    /\ ii' = NextImage(ii, r, Len(image_paths))
    /\ ipc' = "idle"
    /\ pc' = "pmi_loop"

\* the step process_single_image goes to after a step that returned `ok`
AfterStep(ok, next) == IF ok THEN next ELSE "return_none"

\* the step after handle_popups, whose result is dropped (and a caller that
\* would return when a popup was closed)
AfterPopupsUsingResult(closed, next) == IF closed THEN "return_none" ELSE next
AfterPopups(closed, next) == next

ImgOther == <<PDF2IMAGE_AVAILABLE, pdf_files, bi, results, successful, failed, pdf_exists,
             original_size,
              final_pdf,
              temp_folder, image_paths, watermark_remover, driver, chrome, success, ret,
              outputs, steps, uvars, gvars, tvars>>

\* navigate_to_site: driver.get and the wait for <body>; any exception gives False
PsiNavigate ==
    /\ pc = "psi" /\ ipc = "navigate"
    /\ \E ok \in BOOLEAN :
        /\ img' = [img EXCEPT !.steps = Append(@, "navigate"),
                              !.nav = IF ok THEN "ok" ELSE "fail"]
        /\ ipc' = AfterStep(ok, "upload")
    /\ UNCHANGED <<pc, ii, processed_images, outcomes, folder, ImgOther>>

\* upload_image: the file must exist, the input must be found, send_keys must work
PsiUpload ==
    /\ pc = "psi" /\ ipc = "upload"
    /\ \E present \in BOOLEAN, site \in PipelinePages, sent \in BOOLEAN :
        LET ok == present /\ FindUploadInput(site) # 0 /\ sent
        IN  /\ img' = [img EXCEPT !.steps = Append(@, "upload"),
                                  !.upload = IF ok THEN "ok" ELSE "fail"]
            /\ ipc' = AfterStep(ok, "popups1")
    /\ UNCHANGED <<pc, ii, processed_images, outcomes, folder, ImgOther>>

\* handle_popups after the upload: True when a popup was closed, else False
PsiPopupsAfterUpload ==
    /\ pc = "psi" /\ ipc = "popups1"
    /\ \E closed \in BOOLEAN :
        /\ img' = [img EXCEPT !.steps = Append(@, "popups")]
        /\ ipc' = AfterPopups(closed, "wait")
    /\ UNCHANGED <<pc, ii, processed_images, outcomes, folder, ImgOther>>

\* wait_for_processing_completion: a download button or None
PsiWait ==
    /\ pc = "psi" /\ ipc = "wait"
    /\ \E found \in BOOLEAN :
        /\ img' = [img EXCEPT !.steps = Append(@, "wait"),
                              !.button = IF found THEN "ok" ELSE "fail"]
        /\ ipc' = AfterStep(found, "popups2")
    /\ UNCHANGED <<pc, ii, processed_images, outcomes, folder, ImgOther>>

\* handle_popups before the download
PsiPopupsBeforeDownload ==
    /\ pc = "psi" /\ ipc = "popups2"
    /\ \E closed \in BOOLEAN :
        /\ img' = [img EXCEPT !.steps = Append(@, "popups")]
        /\ ipc' = AfterPopups(closed, "download")
    /\ UNCHANGED <<pc, ii, processed_images, outcomes, folder, ImgOther>>

\* download_processed_image: the path returned after os.rename, or after it failed
DownloadedPath(renamed, downloaded_file, new_name) ==
    IF renamed THEN new_name ELSE downloaded_file

\* download_processed_image, no complete new file within download_timeout
PsiDownloadTimeout ==
    /\ pc = "psi" /\ ipc = "download"
    /\ img' = [img EXCEPT !.steps = Append(@, "download")]
    /\ PsiReturn(NoneVal)
    /\ UNCHANGED <<folder, ImgOther>>

\* download_processed_image, a new complete file appeared: rename it (or fail to)
PsiDownloadFile ==
    /\ pc = "psi" /\ ipc = "download"
    /\ \E n \in SiteNames \ Names(folder), renamed \in BOOLEAN :
        LET path == DownloadedPath(renamed, n, NewName(image_paths[ii], n))
        IN  /\ folder' = { f \in folder : f.name # path }
                         \cup { [name |-> path, page |-> ii] }
            /\ PsiReturn(path)
    /\ img' = [img EXCEPT !.steps = Append(@, "download")]
    /\ UNCHANGED ImgOther

\* a failed step: `return None`
PsiReturnNone ==
    /\ pc = "psi" /\ ipc = "return_none"
    /\ PsiReturn(NoneVal)
    /\ UNCHANGED <<img, folder, ImgOther>>

PsiNext ==
    \/ PsiNavigate \/ PsiUpload \/ PsiPopupsAfterUpload \/ PsiWait
    \/ PsiPopupsBeforeDownload \/ PsiDownloadTimeout \/ PsiDownloadFile \/ PsiReturnNone

\* ---------------------------------------------------- process_single_pdf
Batch == <<PDF2IMAGE_AVAILABLE, pdf_files, bi, results, successful, failed, outputs>>
Others == <<uvars, gvars, tvars>>

\* the PDF the current call works on
CurPdf == pdf_files[bi]

\* process_multiple_pdfs up to the loop: folder check, glob, sort
MpStart ==
    /\ pc = "mp_start"
    /\ \E folder_exists \in BOOLEAN :
        IF folder_exists /\ pdf_files # <<>>
        THEN /\ pdf_files' = SortPaths(pdf_files)
             /\ bi' = 1
             /\ pc' = "mp_loop"
        ELSE /\ pdf_files' = <<>>
             /\ bi' = 0
             /\ pc' = "mp_done"
    /\ results' = <<>>
    /\ successful' = 0
    /\ failed' = 0
    /\ UNCHANGED <<PDF2IMAGE_AVAILABLE, outputs, callvars, watermark_remover, driver, Others>>

\* the for loop of process_multiple_pdfs calls process_single_pdf(pdf_file)
MpCall ==
    /\ pc = "mp_loop"
    /\ bi <= Len(pdf_files)
    /\ \E ex \in BOOLEAN, size \in {0, 1} :
        /\ pdf_exists' = ex
        /\ original_size' = size
    /\ temp_folder' = "unset"
    /\ image_paths' = <<>>
    /\ processed_images' = <<>>
    /\ chrome' = "unset"
    /\ success' = "unset"
    /\ ret' = "unset"
    /\ folder' = {}
    /\ final_pdf' = <<>>
    /\ steps' = <<>>
    /\ ii' = 0
    /\ ipc' = "idle"
    /\ img' = NewImg
    /\ outcomes' = <<>>
    /\ pc' = "sp_exists"
    /\ UNCHANGED <<Batch, watermark_remover, driver, Others>>

\* the loop is over: the summary, `return results`
MpReturn ==
    /\ pc = "mp_loop"
    /\ bi > Len(pdf_files)
    /\ pc' = "mp_done"
    /\ UNCHANGED <<Batch, callvars, watermark_remover, driver, Others>>

\* `if not os.path.exists(pdf_path): return None`, before the try
SpExists ==
    /\ pc = "sp_exists"
    /\ IF pdf_exists THEN /\ pc' = "sp_step1"
                          /\ ret' = ret
       ELSE /\ pc' = "sp_returned"
            /\ ret' = "none"
    /\ UNCHANGED <<Batch, pdf_exists, original_size, final_pdf, temp_folder, image_paths,
                   processed_images, chrome, success, folder, steps, ii, ipc, img, outcomes,
                   watermark_remover, driver, Others>>

\* PASO 1: create_temp_folder (False when mkdtemp raises)
SpStep1 ==
    /\ pc = "sp_step1"
    /\ steps' = Append(steps, 1)
    /\ \E ok \in BOOLEAN :
        IF ok THEN /\ temp_folder' = "created"
                   /\ ret' = ret
                   /\ pc' = "sp_step2"
        ELSE /\ temp_folder' = "failed"
             /\ ret' = "none"
             /\ pc' = "sp_finally"
    /\ UNCHANGED <<Batch, pdf_exists, original_size, final_pdf, image_paths, processed_images,
                   chrome, success, folder, ii, ipc, img, outcomes, watermark_remover, driver,
                   Others>>

\* PASO 2: get_pdf_info, whose result is only printed
SpStep2 ==
    /\ pc = "sp_step2"
    /\ steps' = Append(steps, 2)
    /\ pc' = "sp_step3"
    /\ UNCHANGED <<Batch, pdf_exists, original_size, final_pdf, temp_folder, image_paths,
                   processed_images, chrome, success, ret, folder, ii, ipc, img, outcomes,
                   watermark_remover, driver, Others>>

\* convert_pdf_to_images: how many page images pdf2image or the mock can produce.
\* pdf2image cannot read an empty file; the mock draws one page for a file with
\* no "/Type /Page" in it, and either gives [] when it raises.
PageCounts(available, size) ==
    IF available THEN (IF size = 0 THEN {0} ELSE 0..MaxPages)
    ELSE (IF size = 0 THEN {0, 1} ELSE 0..MaxPages)

\* `if not image_paths: return None`
AfterRaster(paths) == IF paths = <<>> THEN "return_none" ELSE "sp_step4"

\* PASO 3: convert_pdf_to_images(pdf_path, self.temp_folder)
SpStep3 ==
    /\ pc = "sp_step3"
    /\ steps' = Append(steps, 3)
    /\ \E n \in PageCounts(PDF2IMAGE_AVAILABLE, original_size) :
        LET paths == [i \in 1..n |-> ImageFilename(CurPdf, i)]
        IN  /\ image_paths' = paths
            /\ folder' = { [name |-> paths[i], page |-> i] : i \in 1..n }
            /\ ret' = IF AfterRaster(paths) = "return_none" THEN "none" ELSE ret
            /\ pc' = IF AfterRaster(paths) = "return_none" THEN "sp_finally"
                     ELSE AfterRaster(paths)
    /\ UNCHANGED <<Batch, pdf_exists, original_size, final_pdf, temp_folder, processed_images,
                   chrome, success, ii, ipc, img, outcomes, watermark_remover, driver, Others>>

\* setup_chrome: True with a driver; False without one (Selenium missing, Chrome
\* not started) or with one (the driver was created and a later call raised)
SetupOutcomes == {"ok", "no_driver", "driver_then_error"}

\* PASO 4, first part: ImageWatermarkRemover(...) and setup_chrome()
SpStep4 ==
    /\ pc = "sp_step4"
    /\ steps' = Append(steps, 4)
    /\ watermark_remover' = TRUE
    /\ \E o \in SetupOutcomes :
        /\ driver' = IF o = "no_driver" THEN "none" ELSE "open"
        /\ chrome' = IF o = "ok" THEN "ok" ELSE "failed"
        /\ IF o = "ok" THEN /\ pc' = "pmi_loop"
                            /\ ii' = 1
                            /\ ret' = ret
           ELSE /\ pc' = "sp_finally"
                /\ ii' = ii
                /\ ret' = "none"
    /\ UNCHANGED <<Batch, pdf_exists, original_size, final_pdf, temp_folder, image_paths,
                   processed_images, success, folder, ipc, img, outcomes, Others>>

\* process_multiple_images: the loop takes the next image
PmiCall ==
    /\ pc = "pmi_loop"
    /\ ii <= Len(image_paths)
    /\ pc' = "psi"
    /\ ipc' = "navigate"
    /\ img' = NewImg
    /\ UNCHANGED <<Batch, pdf_exists, original_size, final_pdf, temp_folder, image_paths,
                   processed_images, chrome, success, ret, folder, steps, ii, outcomes,
                   watermark_remover, driver, Others>>

\* `if not processed_images: return None`
AfterImages(list) == IF list = <<>> THEN "return_none" ELSE "go_on"

\* process_multiple_images returns; `if not processed_images: return None`
PmiReturn ==
    /\ pc = "pmi_loop"
    /\ ii > Len(image_paths)
    /\ ret' = IF AfterImages(processed_images) = "return_none" THEN "none" ELSE ret
    /\ pc' = "sp_inner_finally"
    /\ UNCHANGED <<Batch, pdf_exists, original_size, final_pdf, temp_folder, image_paths,
                   processed_images, chrome, success, folder, steps, ii, ipc, img, outcomes,
                   watermark_remover, driver, Others>>

\* ImageWatermarkRemover.close: quit the driver if there is one; driver = None
\* whether or not quit raised (and a close that would leave the driver set)
CloseLeavingOpen(d) == d
Close(d) == "none"

\* the inner `finally: self.watermark_remover.close()`
SpInnerFinally ==
    /\ pc = "sp_inner_finally"
    /\ driver' = Close(driver)
    /\ pc' = IF ret = "unset" THEN "sp_step5" ELSE "sp_finally"
    /\ UNCHANGED <<Batch, callvars, watermark_remover, Others>>

\* ------------------------------------------------- convert_images_to_pdf
\* the images that end up in the PDF, in PDF order: sorted by basename, then
\* those that exist, then those Image.open can read (`readable`)
ImagesForPdf(list, fs, readable) ==
    LET sorted_paths == SortedByBasename(list)
        valid_paths == SelectSeqBy(sorted_paths, Names(fs))
    IN  SelectSeqBy(valid_paths, readable)

\* the source page shown by each page of the PDF made from `list`
PdfPages(list, fs, readable) ==
    LET opened == ImagesForPdf(list, fs, readable)
    IN  [k \in 1..Len(opened) |-> FileOf(fs, opened[k]).page]

\* convert_images_to_pdf returns True: something to save, and save did not raise
ConvertSucceeds(list, fs, readable, saved) ==
    /\ list # <<>>
    /\ ImagesForPdf(list, fs, readable) # <<>>
    /\ saved

\* `if success: ... return final_pdf_path / else: return None` (and a caller
\* that would not look at the result)
AfterConvertIgnoringResult(ok) == "sp_stats"
AfterConvert(ok) == IF ok THEN "sp_stats" ELSE "return_none"

\* PASO 5: convert_images_to_pdf(processed_images, final_pdf_path)
SpStep5 ==
    /\ pc = "sp_step5"
    /\ steps' = Append(steps, 5)
    /\ \E readable \in SUBSET { processed_images[k] : k \in 1..Len(processed_images) },
          saved \in BOOLEAN :
        LET ok == ConvertSucceeds(processed_images, folder, readable, saved)
        IN  /\ success' = IF ok THEN "yes" ELSE "no"
            /\ outputs' = IF ok THEN outputs \cup {CurPdf} ELSE outputs
            /\ final_pdf' = IF ok THEN PdfPages(processed_images, folder, readable)
                            ELSE final_pdf
            /\ ret' = IF AfterConvert(ok) = "return_none" THEN "none" ELSE ret
            /\ pc' = IF AfterConvert(ok) = "return_none" THEN "sp_finally" ELSE AfterConvert(ok)
    /\ UNCHANGED <<PDF2IMAGE_AVAILABLE, pdf_files, bi, results, successful, failed,
                   pdf_exists, original_size,
                   temp_folder, image_paths, processed_images, chrome, folder, ii, ipc, img,
                   outcomes, watermark_remover, driver, Others>>

\* the statistics printed on success divide by the size of the source file
StatsRaise(final_exists, size) == final_exists /\ size = 0

\* the success branch: the statistics, then `return final_pdf_path`
SpStats ==
    /\ pc = "sp_stats"
    /\ IF StatsRaise(CurPdf \in outputs, original_size)
       THEN /\ pc' = "sp_except"
            /\ ret' = ret
       ELSE /\ pc' = "sp_finally"
            /\ ret' = "path"
    /\ UNCHANGED <<Batch, pdf_exists, original_size, final_pdf, temp_folder, image_paths,
                   processed_images, chrome, success, folder, steps, ii, ipc, img, outcomes,
                   watermark_remover, driver, Others>>

\* `except Exception as e: ... return None`
ExceptResult == "none"

SpExcept ==
    /\ pc = "sp_except"
    /\ ret' = ExceptResult
    /\ pc' = "sp_finally"
    /\ UNCHANGED <<Batch, pdf_exists, original_size, final_pdf, temp_folder, image_paths,
                   processed_images, chrome, success, folder, steps, ii, ipc, img, outcomes,
                   watermark_remover, driver, Others>>

\* cleanup_temp_folder: rmtree of a folder that was made (it may fail, and
\* then the folder and self.temp_folder stay); nothing to do otherwise (and a
\* cleanup that would not be called)
CleanupTempFolderSkipped(tf, removed) == tf
CleanupTempFolder(tf, removed) ==
    IF tf = "created" THEN (IF removed THEN "removed" ELSE "remove_failed") ELSE tf

\* the outer finally: close the remover if there is one, cleanup_temp_folder
SpFinally ==
    /\ pc = "sp_finally"
    /\ driver' = IF watermark_remover THEN Close(driver) ELSE driver
    /\ \E removed \in BOOLEAN :
        /\ temp_folder' = CleanupTempFolder(temp_folder, removed)
        /\ folder' = IF temp_folder' = "removed" THEN {} ELSE folder
    /\ pc' = "sp_returned"
    /\ UNCHANGED <<Batch, pdf_exists, original_size, final_pdf, image_paths, processed_images,
                   chrome, success, ret, steps, ii, ipc, img, outcomes, watermark_remover, Others>>

\* the record process_multiple_pdfs appends for the PDF just processed
ResultRecord(i, pdf_file, result) ==
    [index |-> i, input_file |-> pdf_file, success |-> (result = "path")]

\* `if result_path: successful += 1 / else: failed += 1` (and a counter
\* that would never move)
TallyNever(n, counted) == n
Tally(n, counted) == IF counted THEN n + 1 ELSE n

\* process_single_pdf has returned: append the record, count it, go to the
\* next PDF
MpRecord ==
    /\ pc = "sp_returned"
    /\ results' = Append(results, ResultRecord(bi, CurPdf, ret))
    /\ successful' = Tally(successful, ret = "path")
    /\ failed' = Tally(failed, ret # "path")
    /\ bi' = bi + 1
    /\ pc' = "mp_loop"
    /\ UNCHANGED <<PDF2IMAGE_AVAILABLE, pdf_files, outputs, callvars, watermark_remover,
                   driver, Others>>

PNext ==
    \/ MpStart \/ MpCall \/ MpReturn \/ MpRecord
    \/ SpExists \/ SpStep1 \/ SpStep2 \/ SpStep3 \/ SpStep4
    \/ PmiCall \/ PsiNext \/ PmiReturn
    \/ SpInnerFinally \/ SpStep5 \/ SpStats \/ SpExcept \/ SpFinally

\* ------------------------------------------------------- clean_gui_app
RunIds == 1..MaxRuns

NoWorker == [pc |-> "none", obj |-> 0, pages |-> 0, i |-> 0, processed |-> 0,
             result |-> "unset"]

NoHist == [cancelled |-> FALSE, late_submit |-> FALSE, late_pdf |-> FALSE, pdf |-> FALSE,
           late_success |-> FALSE, success_dialog |-> FALSE, dialogs |-> 0, finished |-> 0,
           raised |-> FALSE, shown |-> 0]

GInit ==
    /\ g_processing = FALSE
    /\ start_btn = "normal"
    /\ cancel_btn = "disabled"
    /\ progress_var = "Listo"
    /\ processor = 0
    /\ proc_processing = [r \in RunIds |-> FALSE]
    /\ runs = 0
    /\ workers = [r \in RunIds |-> NoWorker]
    /\ after_queue = <<>>
    /\ hist = [r \in RunIds |-> NoHist]

GOther == <<pvars, uvars, tvars>>

\* start_processing: `self.start_btn.config(state='disabled')` (and the button
\* left as it was)
StartBtnLeftEnabled == "normal"
StartBtnWhileProcessing == "disabled"

\* start_processing, past its checks (a PDF is selected and exists, the output
\* folder can be made): set up the UI, start the worker thread
StartProcessing ==
    /\ start_btn = "normal"
    /\ runs < MaxRuns
    /\ g_processing' = TRUE
    /\ start_btn' = StartBtnWhileProcessing
    /\ cancel_btn' = "normal"
    /\ progress_var' = "Procesando..."
    /\ runs' = runs + 1
    /\ workers' = [workers EXCEPT ![runs + 1] = [NoWorker EXCEPT !.pc = "w_create"]]
    /\ UNCHANGED <<processor, proc_processing, after_queue, hist, GOther>>

\* cancel_processing: the flags it clears, given self.processor
CancelProcessorFlags(flags, p) == IF p # 0 THEN [flags EXCEPT ![p] = FALSE] ELSE flags

\* cancel_processing, on a click of the enabled cancel button
CancelProcessing ==
    /\ cancel_btn = "normal"
    /\ g_processing' = FALSE
    /\ proc_processing' = CancelProcessorFlags(proc_processing, processor)
    /\ hist' = [hist EXCEPT ![runs].cancelled = TRUE]
    /\ UNCHANGED <<start_btn, cancel_btn, progress_var, processor, runs, workers,
                   after_queue, GOther>>

\* the Tk loop runs the oldest callback: finish_processing
RunFinishProcessing ==
    /\ after_queue # <<>>
    /\ Head(after_queue).kind = "finish"
    /\ g_processing' = FALSE
    /\ start_btn' = "normal"
    /\ cancel_btn' = "disabled"
    /\ progress_var' = "Listo"
    /\ hist' = [hist EXCEPT ![Head(after_queue).run].finished = @ + 1]
    /\ after_queue' = Tail(after_queue)
    /\ UNCHANGED <<processor, proc_processing, runs, workers, GOther>>

\* what running a scheduled dialog callback shows: the lambdas of the try block
\* show their box; the lambda of `except Exception as e:` reads e, which is
\* unbound once the except clause is over, and raises NameError in the Tk loop
BoxesShown(kind) == IF kind \in {"success", "error"} THEN 1 ELSE 0

\* the Tk loop runs the oldest callback: a message box
RunDialog ==
    /\ after_queue # <<>>
    /\ Head(after_queue).kind \in {"success", "error", "error_e"}
    /\ after_queue' = Tail(after_queue)
    /\ hist' = [hist EXCEPT ![Head(after_queue).run].shown =
                                 @ + BoxesShown(Head(after_queue).kind)]
    /\ UNCHANGED <<g_processing, start_btn, cancel_btn, progress_var, processor,
                   proc_processing, runs, workers, GOther>>

GuiFixed == <<start_btn, cancel_btn, progress_var, runs, g_processing>>

\* process_worker: `self.processor = PDFProcessor(...)`, processing = True
WCreate(r) ==
    /\ workers[r].pc = "w_create"
    /\ processor' = r
    /\ proc_processing' = [proc_processing EXCEPT ![r] = TRUE]
    /\ workers' = [workers EXCEPT ![r].pc = "w_entry"]
    /\ UNCHANGED <<GuiFixed, after_queue, hist, GOther>>

\* self.processor.process_pdf(...): `if not self.processing: return None`
WEntry(r) ==
    /\ workers[r].pc = "w_entry"
    /\ workers' = [workers EXCEPT ![r].obj = processor,
                                  ![r].pc = IF proc_processing[processor] THEN "w_setup"
                                            ELSE "w_result",
                                  ![r].result = IF proc_processing[processor] THEN @
                                                ELSE "none"]
    /\ UNCHANGED <<GuiFixed, processor, proc_processing, after_queue, hist, GOther>>

\* process_pdf: temp folder, Chrome, pdf_to_images; n = 0 when one of them fails
WSetup(r) ==
    /\ workers[r].pc = "w_setup"
    /\ \E n \in 0..MaxGuiPages :
        workers' = [workers EXCEPT ![r].pages = n,
                                   ![r].i = 1,
                                   ![r].pc = IF n = 0 THEN "w_cleanup" ELSE "w_loop",
                                   ![r].result = IF n = 0 THEN "none" ELSE @]
    /\ UNCHANGED <<GuiFixed, processor, proc_processing, after_queue, hist, GOther>>

\* the page loop: `if not self.processing: break`, else submit the page
WSubmit(r) ==
    /\ workers[r].pc = "w_loop"
    /\ workers[r].i <= workers[r].pages
    /\ proc_processing[workers[r].obj]
    /\ workers' = [workers EXCEPT ![r].pc = "w_inflight"]
    /\ hist' = [hist EXCEPT ![r].late_submit = @ \/ hist[r].cancelled]
    /\ UNCHANGED <<GuiFixed, processor, proc_processing, after_queue, GOther>>

WBreak(r) ==
    /\ workers[r].pc = "w_loop"
    /\ workers[r].i <= workers[r].pages
    /\ ~proc_processing[workers[r].obj]
    /\ workers' = [workers EXCEPT ![r].pc = "w_final"]
    /\ UNCHANGED <<GuiFixed, processor, proc_processing, after_queue, hist, GOther>>

WLoopEnd(r) ==
    /\ workers[r].pc = "w_loop"
    /\ workers[r].i > workers[r].pages
    /\ workers' = [workers EXCEPT ![r].pc = "w_final"]
    /\ UNCHANGED <<GuiFixed, processor, proc_processing, after_queue, hist, GOther>>

\* process_image_online returns (a path or None), then time.sleep(2)
WPageDone(r) ==
    /\ workers[r].pc = "w_inflight"
    /\ \E got \in BOOLEAN :
        workers' = [workers EXCEPT ![r].processed = IF got THEN @ + 1 ELSE @,
                                   ![r].i = @ + 1,
                                   ![r].pc = "w_loop"]
    /\ UNCHANGED <<GuiFixed, processor, proc_processing, after_queue, hist, GOther>>

\* `if processed_images and self.processing:` images_to_pdf, return output_path
WFinal(r) ==
    /\ workers[r].pc = "w_final"
    /\ \E saved \in BOOLEAN :
        LET write == workers[r].processed > 0 /\ proc_processing[workers[r].obj] /\ saved
        IN  /\ workers' = [workers EXCEPT ![r].result = IF write THEN "path" ELSE "none",
                                          ![r].pc = "w_cleanup"]
            /\ hist' = [hist EXCEPT ![r].pdf = write,
                                    ![r].late_pdf = write /\ hist[r].cancelled]
    /\ UNCHANGED <<GuiFixed, processor, proc_processing, after_queue, GOther>>

\* `finally: self.cleanup()`
WCleanup(r) ==
    /\ workers[r].pc = "w_cleanup"
    /\ workers' = [workers EXCEPT ![r].pc = "w_result"]
    /\ UNCHANGED <<GuiFixed, processor, proc_processing, after_queue, hist, GOther>>

\* process_worker: which dialog is scheduled for `result` and self.processing
DialogFor(result, gui_processing) ==
    IF result = "path" /\ gui_processing THEN "success"
    ELSE IF gui_processing THEN "error"
    ELSE "nothing"

WResult(r) ==
    /\ workers[r].pc = "w_result"
    /\ LET d == DialogFor(workers[r].result, g_processing)
       IN  /\ after_queue' = IF d = "nothing" THEN after_queue
                             ELSE Append(after_queue, [kind |-> d, run |-> r])
           /\ hist' = [hist EXCEPT ![r].dialogs = IF d = "nothing" THEN @ ELSE @ + 1,
                                   ![r].success_dialog = (d = "success"),
                                   ![r].late_success = (d = "success" /\ hist[r].cancelled)]
    /\ workers' = [workers EXCEPT ![r].pc = "w_finally"]
    /\ UNCHANGED <<GuiFixed, processor, proc_processing, GOther>>

\* a statement of the try block raises (the Tk variables read from the worker
\* thread at lines 426 and 432-435, root.after at lines 439 and 444)
WRaise(r) ==
    /\ workers[r].pc \in {"w_create", "w_entry", "w_result"}
    /\ workers' = [workers EXCEPT ![r].pc = "w_except"]
    /\ hist' = [hist EXCEPT ![r].raised = TRUE]
    /\ UNCHANGED <<GuiFixed, processor, proc_processing, after_queue, GOther>>

\* `except Exception as e:` the log line, and the error box scheduled
WExcept(r) ==
    /\ workers[r].pc = "w_except"
    /\ after_queue' = Append(after_queue, [kind |-> "error_e", run |-> r])
    /\ hist' = [hist EXCEPT ![r].dialogs = @ + 1]
    /\ workers' = [workers EXCEPT ![r].pc = "w_finally"]
    /\ UNCHANGED <<GuiFixed, processor, proc_processing, GOther>>

\* what the finally clause of process_worker schedules (and a clause that
\* would schedule nothing)
FinallyCallbacksNone(r) == <<>>
FinallyCallbacks(r) == <<[kind |-> "finish", run |-> r]>>

\* `finally: self.root.after(0, self.finish_processing)`, the thread's last statement
WFinally(r) ==
    /\ workers[r].pc = "w_finally"
    /\ after_queue' = after_queue \o FinallyCallbacks(r)
    /\ workers' = [workers EXCEPT ![r] = [NoWorker EXCEPT !.pc = "w_done"]]
    /\ UNCHANGED <<GuiFixed, processor, proc_processing, hist, GOther>>

Worker(r) ==
    \/ WCreate(r) \/ WEntry(r) \/ WSetup(r) \/ WSubmit(r) \/ WBreak(r) \/ WLoopEnd(r)
    \/ WPageDone(r) \/ WFinal(r) \/ WCleanup(r) \/ WResult(r) \/ WRaise(r) \/ WExcept(r)
    \/ WFinally(r)

GNext ==
    \/ StartProcessing \/ CancelProcessing \/ RunFinishProcessing \/ RunDialog
    \/ \E r \in RunIds : Worker(r)

\* ------------------------------- pdf_to_images.convert_pdf_to_images
\* PDFToImages(dpi, image_format): the values a caller may configure
Dpis == {150, 300}
Formats == {"PNG", "JPEG"}

\* "." and self.image_format.lower()
FormatExt(fmt) == IF fmt = "PNG" THEN EXT_png ELSE <<46, 106, 112, 101, 103>>

\* f"{pdf_name}_page_{i:03d}.{self.image_format.lower()}"
PageFilename(pdf_name, i, ext) == pdf_name \o STR_page \o Pad3(i) \o ext

\* convert_from_path(pdf_path, dpi=self.dpi, fmt=...): the pages in page
\* order, all rendered by this one call
ConvertFromPath(pages, dpi) == [k \in 1..pages |-> [page |-> k, dpi |-> dpi]]

\* _convert_mock: one drawn image per page counted, no rendering (dpi 0)
MockImages(n) == [k \in 1..n |-> [page |-> k, dpi |-> 0]]

CvInit ==
    /\ cv_dpi \in Dpis
    /\ cv_format \in Formats
    /\ cv_pc = "entry"
    /\ cv_pdf_exists \in BOOLEAN
    /\ cv_output_folder \in BOOLEAN
    /\ cv_available \in BOOLEAN
    /\ cv_pages \in 0..MaxPages
    /\ cv_temp_folder = "none"
    /\ cv_disk = {}
    /\ cv_k = 0
    /\ cv_image_paths = <<>>
    /\ cv_ret = <<>>

CvIdle ==
    /\ cv_dpi = 300
    /\ cv_format = "PNG"
    /\ cv_pc = "returned"
    /\ cv_pdf_exists = FALSE
    /\ cv_output_folder = FALSE
    /\ cv_available = FALSE
    /\ cv_pages = 0
    /\ cv_temp_folder = "none"
    /\ cv_disk = {}
    /\ cv_k = 0
    /\ cv_image_paths = <<>>
    /\ cv_ret = <<>>

CvFixed == <<cv_pdf_exists, cv_output_folder, cv_available, cv_pages, cv_dpi, cv_format>>
CvOther ==
    <<pvars, uvars, gvars, civars, mavars, dlvars, gpvars, lgvars, rmvars, wtvars>>

\* PDFToImages.convert_pdf_to_images up to the try: the exists check, and
\* create_temp_folder when no output_folder was given (None when mkdtemp raises)
CvEntry ==
    /\ cv_pc = "entry"
    /\ IF ~cv_pdf_exists
       THEN /\ cv_pc' = "finally"
            /\ cv_temp_folder' = cv_temp_folder
       ELSE IF cv_output_folder
       THEN /\ cv_pc' = "convert"
            /\ cv_temp_folder' = cv_temp_folder
       ELSE \E made \in BOOLEAN :
                /\ cv_temp_folder' = IF made THEN "created" ELSE "none"
                /\ cv_pc' = IF made THEN "convert" ELSE "finally"
    /\ cv_ret' = <<>>
    /\ UNCHANGED <<CvFixed, cv_disk, cv_k, cv_image_paths, CvOther>>

\* the images the converter has to save: convert_from_path gives the pages;
\* the mock counts "/Type /Page" and takes 1 when it finds none
ImagesToSave(available, pages) == IF available THEN pages ELSE (IF pages = 0 THEN 1 ELSE pages)

\* _convert_with_pdf2image / _convert_mock up to the loop (convert_from_path
\* or the PIL import may raise: `return []`)
CvConvert ==
    /\ cv_pc = "convert"
    /\ \E raised \in BOOLEAN :
        IF raised THEN /\ cv_pc' = "finally"
                       /\ cv_ret' = <<>>
                       /\ cv_k' = cv_k
        ELSE /\ cv_pc' = "save"
             /\ cv_ret' = cv_ret
             /\ cv_k' = 1
    /\ UNCHANGED <<CvFixed, cv_temp_folder, cv_disk, cv_image_paths, CvOther>>

\* the images of the loop, and the file written for the k-th of them: its
\* name, and the page and resolution of the image saved in it
CvImages ==
    IF cv_available THEN ConvertFromPath(cv_pages, cv_dpi)
    ELSE MockImages(ImagesToSave(cv_available, cv_pages))

CvImagePath(k) ==
    [name |-> PageFilename(PdfStem(1), k,
                           IF cv_available THEN FormatExt(cv_format) ELSE EXT_png),
     page |-> CvImages[k].page,
     dpi |-> CvImages[k].dpi]

\* `except Exception as e: ... return []` (and a return of what was saved so far)
AfterSaveErrorPartial(saved_paths) == saved_paths
AfterSaveError(saved_paths) == <<>>

\* one iteration of the loop: image.save(image_path), image_paths.append
\* (save may raise: `return []`, the files saved before stay)
CvSave ==
    /\ cv_pc = "save"
    /\ cv_k <= ImagesToSave(cv_available, cv_pages)
    /\ \E saved \in BOOLEAN :
        IF saved THEN /\ cv_disk' = cv_disk \cup {CvImagePath(cv_k)}
                      /\ cv_image_paths' = Append(cv_image_paths, CvImagePath(cv_k))
                      /\ cv_k' = cv_k + 1
                      /\ UNCHANGED <<cv_pc, cv_ret>>
        ELSE /\ cv_pc' = "finally"
             /\ cv_ret' = AfterSaveError(cv_image_paths)
             /\ UNCHANGED <<cv_disk, cv_image_paths, cv_k>>
    /\ UNCHANGED <<CvFixed, cv_temp_folder, CvOther>>

\* the loop is over: `return image_paths`
CvSaved ==
    /\ cv_pc = "save"
    /\ cv_k > ImagesToSave(cv_available, cv_pages)
    /\ cv_ret' = cv_image_paths
    /\ cv_pc' = "finally"
    /\ UNCHANGED <<CvFixed, cv_temp_folder, cv_disk, cv_k, cv_image_paths, CvOther>>

\* the module function's `finally: if not output_folder: cleanup_temp_folder()`
\* (rmtree removes the folder, or raises having removed some of the files)
CvFinally ==
    /\ cv_pc = "finally"
    /\ IF ~cv_output_folder /\ cv_temp_folder = "created"
       THEN \E removed \in BOOLEAN, left \in SUBSET cv_disk :
                /\ cv_temp_folder' = IF removed THEN "removed" ELSE "created"
                /\ cv_disk' = IF removed THEN {} ELSE left
       ELSE UNCHANGED <<cv_temp_folder, cv_disk>>
    /\ cv_pc' = "returned"
    /\ UNCHANGED <<CvFixed, cv_k, cv_image_paths, cv_ret, CvOther>>

CvNext == CvEntry \/ CvConvert \/ CvSave \/ CvSaved \/ CvFinally

\* ------------------------------ images_to_pdf.convert_images_to_pdf
\* the image files a call may be given
CiNames == { ImageFilename(1, 1), ImageFilename(1, 2), <<122>> \o EXT_jpg }

CiLists == UNION { [1..n -> CiNames] : n \in 0..MaxImages }

CiInit ==
    /\ ci_pc = "entry"
    /\ ci_pil \in BOOLEAN
    /\ ci_image_paths \in CiLists
    /\ ci_files \in [CiNames -> {"missing", "unopenable", "ok"}]
    /\ ci_valid_paths = <<>>
    /\ ci_k = 0
    /\ ci_processed = <<>>
    /\ ci_save = "unset"
    /\ ci_pdf = <<>>
    /\ ci_ret = "unset"

CiIdle ==
    /\ ci_pc = "returned"
    /\ ci_pil = FALSE
    /\ ci_image_paths = <<>>
    /\ ci_files = [n \in CiNames |-> "missing"]
    /\ ci_valid_paths = <<>>
    /\ ci_k = 0
    /\ ci_processed = <<>>
    /\ ci_save = "unset"
    /\ ci_pdf = <<>>
    /\ ci_ret = "unset"

CiFixed == <<ci_pil, ci_image_paths, ci_files>>
CiOther ==
    <<pvars, uvars, gvars, cvvars, mavars, dlvars, gpvars, lgvars, rmvars, wtvars>>

\* `if not PIL_AVAILABLE: return False`, `if not image_paths: return False`
CiEntry ==
    /\ ci_pc = "entry"
    /\ IF ~ci_pil \/ ci_image_paths = <<>>
       THEN /\ ci_ret' = "false"
            /\ ci_pc' = "returned"
       ELSE /\ ci_ret' = ci_ret
            /\ ci_pc' = "validate"
    /\ UNCHANGED <<CiFixed, ci_valid_paths, ci_k, ci_processed, ci_save, ci_pdf, CiOther>>

\* the sort by basename and the os.path.exists loop; `if not valid_paths`
CiValidate ==
    /\ ci_pc = "validate"
    /\ LET sorted_paths == SortedByBasename(ci_image_paths)
           valid == SelectSeqBy(sorted_paths, { n \in CiNames : ci_files[n] # "missing" })
       IN  /\ ci_valid_paths' = valid
           /\ IF valid = <<>> THEN /\ ci_ret' = "false"
                                    /\ ci_pc' = "returned"
                                    /\ ci_k' = ci_k
              ELSE /\ ci_ret' = ci_ret
                   /\ ci_pc' = "open"
                   /\ ci_k' = 1
    /\ UNCHANGED <<CiFixed, ci_processed, ci_save, ci_pdf, CiOther>>

\* the open loop's `except Exception: ... continue`: processed_images is left
\* as it is (and a handler that would throw the opened images away)
AfterOpenErrorDropAll(processed) == <<>>
AfterOpenError(processed) == processed

\* one iteration of the open loop: Image.open, convert to RGB, append
CiOpen ==
    /\ ci_pc = "open"
    /\ ci_k <= Len(ci_valid_paths)
    /\ IF ci_files[ci_valid_paths[ci_k]] = "ok"
       THEN /\ ci_processed' = Append(ci_processed, ci_valid_paths[ci_k])
            /\ ci_k' = ci_k + 1
       ELSE /\ ci_processed' = AfterOpenError(ci_processed)
            /\ ci_k' = ci_k + 1
    /\ UNCHANGED <<CiFixed, ci_pc, ci_valid_paths, ci_save, ci_pdf, ci_ret, CiOther>>

\* the loop is over: `if not processed_images: return False`
CiOpened ==
    /\ ci_pc = "open"
    /\ ci_k > Len(ci_valid_paths)
    /\ IF ci_processed = <<>>
       THEN /\ ci_ret' = "false"
            /\ ci_pc' = "returned"
       ELSE /\ ci_ret' = ci_ret
            /\ ci_pc' = "save"
    /\ UNCHANGED <<CiFixed, ci_valid_paths, ci_k, ci_processed, ci_save, ci_pdf, CiOther>>

\* makedirs and first_image.save(output_pdf_path, "PDF", save_all, append_images):
\* the PDF is written, or an exception leaves none (`return False`), or save
\* returns and the file is not there
CiSave ==
    /\ ci_pc = "save"
    /\ \E o \in {"written", "raised", "nothing"} :
        /\ ci_save' = o
        /\ ci_pdf' = IF o = "written" THEN ci_processed ELSE <<>>
        /\ ci_ret' = IF o = "raised" THEN "false" ELSE ci_ret
        /\ ci_pc' = IF o = "raised" THEN "returned" ELSE "verify"
    /\ UNCHANGED <<CiFixed, ci_valid_paths, ci_k, ci_processed, CiOther>>

\* `if os.path.exists(output_pdf_path): return True / else: return False`
CiVerify ==
    /\ ci_pc = "verify"
    /\ ci_ret' = IF ci_save = "written" THEN "true" ELSE "false"
    /\ ci_pc' = "returned"
    /\ UNCHANGED <<CiFixed, ci_valid_paths, ci_k, ci_processed, ci_save, ci_pdf, CiOther>>

CiNext == CiEntry \/ CiValidate \/ CiOpen \/ CiOpened \/ CiSave \/ CiVerify

\* --------------------------------------- rsc/main.py: PDFWatermarkRemover
\* the names the module binds by import: tkinter, ttk, filedialog, messagebox,
\* Path, threading, os (shutil is not among them)
ShutilImported == FALSE

MaStart ==
    /\ ma_selected_file = 0
    /\ ma_processing = FALSE
    /\ ma_process_btn = "normal"
    /\ ma_progress = "stopped"
    /\ ma_pc = "idle"
    /\ ma_processed = {}
    /\ ma_msg = "none"
    /\ ma_log = 0
    /\ ma_output_file = 0
    /\ ma_runs = 0

\* the application is started in a directory with or without ProcessedPDFs
MaInit == MaStart /\ ma_output_dir \in BOOLEAN

MaIdle == MaStart /\ ma_output_dir = FALSE

MaOther ==
    <<pvars, uvars, gvars, cvvars, civars, dlvars, gpvars, lgvars, rmvars, wtvars>>

\* select_file: the dialog gives an existing PDF
SelectFile ==
    /\ \E f \in PdfIds :
        /\ f # ma_selected_file
        /\ ma_selected_file' = f
    /\ UNCHANGED <<ma_processing, ma_process_btn, ma_progress, ma_pc, ma_output_dir,
                   ma_processed, ma_msg, ma_log, ma_output_file, ma_runs, MaOther>>

\* start_processing, on a click of the enabled button
MaStartProcessing ==
    /\ ma_process_btn = "normal"
    /\ ma_runs < MaxRuns
    /\ IF ma_selected_file = 0
       THEN /\ ma_msg' = "select_first"
            /\ ma_msg # "select_first"
            /\ UNCHANGED <<ma_processing, ma_process_btn, ma_progress, ma_pc, ma_output_file,
                           ma_runs>>
       ELSE IF ma_processing
       THEN /\ ma_msg' = "busy"
            /\ UNCHANGED <<ma_processing, ma_process_btn, ma_progress, ma_pc, ma_output_file,
                           ma_runs>>
       ELSE /\ ma_processing' = TRUE
            /\ ma_process_btn' = "disabled"
            /\ ma_progress' = "running"
            /\ ma_pc' = "begin"
            /\ ma_output_file' = 0
            /\ ma_runs' = ma_runs + 1
            /\ ma_msg' = ma_msg
    /\ UNCHANGED <<ma_selected_file, ma_output_dir, ma_processed, ma_log, MaOther>>

MaThreadFixed == <<ma_selected_file, ma_processing, ma_process_btn, ma_progress, ma_runs>>
MaThreadKept == <<MaThreadFixed, ma_output_file>>

\* process_pdf: the two log lines (each log_message runs root.update())
MaBegin ==
    /\ ma_pc = "begin"
    /\ ma_log' = ma_log + 2
    /\ ma_pc' = "mkdir"
    /\ UNCHANGED <<MaThreadKept, ma_output_dir, ma_processed, ma_msg, MaOther>>

\* output_dir.mkdir(exist_ok=True): raises when the folder cannot be made
MaMkdir ==
    /\ ma_pc = "mkdir"
    /\ \E made \in BOOLEAN :
        /\ ma_output_dir' = (ma_output_dir \/ made)
        /\ ma_pc' = IF ma_output_dir \/ made THEN "sleep" ELSE "except"
    /\ UNCHANGED <<MaThreadKept, ma_processed, ma_msg, ma_log, MaOther>>

\* the log line and time.sleep(3)
MaSleep ==
    /\ ma_pc = "sleep"
    /\ ma_log' = ma_log + 1
    /\ ma_pc' = "copy"
    /\ UNCHANGED <<MaThreadKept, ma_output_dir, ma_processed, ma_msg, MaOther>>

\* output_file = output_dir / f"processed_{self.selected_file.name}", then
\* shutil.copy2(self.selected_file, output_file): NameError when the name
\* shutil is not bound; else the copy, the two log lines and the success box
MaCopy ==
    /\ ma_pc = "copy"
    /\ ma_output_file' = ma_selected_file
    /\ IF ShutilImported
       THEN \E copied \in BOOLEAN :
                IF copied THEN /\ ma_processed' = ma_processed \cup {ma_selected_file}
                               /\ ma_log' = ma_log + 2
                               /\ ma_msg' = "success"
                               /\ ma_pc' = "box"
                ELSE /\ ma_pc' = "except"
                     /\ UNCHANGED <<ma_processed, ma_log, ma_msg>>
       ELSE /\ ma_pc' = "except"
            /\ UNCHANGED <<ma_processed, ma_log, ma_msg>>
    /\ UNCHANGED <<MaThreadFixed, ma_output_dir, MaOther>>

\* `except Exception as e:` the log line and the error box
MaExcept ==
    /\ ma_pc = "except"
    /\ ma_log' = ma_log + 1
    /\ ma_msg' = "error"
    /\ ma_pc' = "box"
    /\ UNCHANGED <<MaThreadKept, ma_output_dir, ma_processed, MaOther>>

\* messagebox.showinfo / showerror returns when the user closes the box
MaBoxClosed ==
    /\ ma_pc = "box"
    /\ ma_pc' = "finally"
    /\ UNCHANGED <<MaThreadKept, ma_output_dir, ma_processed, ma_msg, ma_log, MaOther>>

\* `finally:` processing = False, stop the bar, enable the button
MaFinally ==
    /\ ma_pc = "finally"
    /\ ma_processing' = FALSE
    /\ ma_progress' = "stopped"
    /\ ma_process_btn' = "normal"
    /\ ma_pc' = "idle"
    /\ UNCHANGED <<ma_selected_file, ma_output_dir, ma_processed, ma_msg, ma_log,
                   ma_output_file, ma_runs, MaOther>>

MaNext == SelectFile \/ MaStartProcessing \/ MaBegin \/ MaMkdir \/ MaSleep \/ MaCopy \/ MaExcept
          \/ MaBoxClosed \/ MaFinally

\* ------------------------------------------- download_processed_image
EXT_crdownload == <<46, 99, 114, 100, 111, 119, 110, 108, 111, 97, 100>>
EXT_tmp == <<46, 116, 109, 112>>
EXT_part == <<46, 112, 97, 114, 116>>

\* str.endswith
EndsWith(s, suf) ==
    Len(s) >= Len(suf) /\ SubSeq(s, Len(s) - Len(suf) + 1, Len(s)) = suf

\* f.endswith(('.crdownload', '.tmp', '.part'))
IsPartialName(f) ==
    EndsWith(f, EXT_crdownload) \/ EndsWith(f, EXT_tmp) \/ EndsWith(f, EXT_part)

\* the name the site gives to the download started by click d ("a.jpg", "b.jpg")
\* and the name the browser writes it under until it is complete
DownloadName(d) == <<96 + d>> \o EXT_jpg
PartialName(d, suf) == DownloadName(d) \o suf

\* new_files = current_files - files_before (and a listing not compared)
NewFilesAll(current_files, files_before) == current_files
NewFiles(current_files, files_before) == current_files \ files_before

\* complete_files: the new files that are not partial
CompleteFiles(current_files, files_before) ==
    { f \in NewFiles(current_files, files_before) : ~IsPartialName(f) }

DlPages == 1..MaxDlPages

\* the folder holds the page images when the browser starts
DlInit ==
    /\ dl_folder = { [name |-> ImageFilename(1, i), click |-> 0] : i \in DlPages }
    /\ dl_i = 1
    /\ dl_pc = "listing"
    /\ dl_files_before = {}
    /\ dl_polls = 0
    /\ dl_results = <<>>

DlIdle ==
    /\ dl_folder = {}
    /\ dl_i = 1
    /\ dl_pc = "done"
    /\ dl_files_before = {}
    /\ dl_polls = 0
    /\ dl_results = <<>>

DlOther ==
    <<pvars, uvars, gvars, cvvars, civars, mavars, gpvars, lgvars, rmvars, wtvars>>

\* download_processed_image returns r for page dl_i
DlReturn(src, path, click) ==
    /\ dl_results' = Append(dl_results, [src |-> src, path |-> path, click |-> click])
    /\ dl_pc' = "returned"

\* files_before = set(os.listdir(self.download_folder))
DlListBefore ==
    /\ dl_pc = "listing"
    /\ dl_files_before' = Names(dl_folder)
    /\ dl_pc' = "click"
    /\ UNCHANGED <<dl_folder, dl_i, dl_polls, dl_results, DlOther>>

\* the click: the browser starts writing a download under a partial name, or
\* nothing is started, or the click raises (`return None`)
DlClick ==
    /\ dl_pc = "click"
    /\ \/ \E suf \in {EXT_crdownload, EXT_tmp, EXT_part} :
            /\ dl_folder' = dl_folder \cup {[name |-> PartialName(dl_i, suf), click |-> dl_i]}
            /\ dl_pc' = "poll"
            /\ dl_polls' = MaxPolls
            /\ UNCHANGED dl_results
       \/ /\ dl_pc' = "poll"
          /\ dl_polls' = MaxPolls
          /\ UNCHANGED <<dl_folder, dl_results>>
       \/ /\ DlReturn(NoneVal, NoneVal, 0)
          /\ UNCHANGED <<dl_folder, dl_polls>>
    /\ UNCHANGED <<dl_i, dl_files_before, DlOther>>

\* the browser finishes a download: the partial file gets its name
DlComplete ==
    /\ dl_pc \in {"listing", "click", "poll", "returned"}
    /\ \E f \in dl_folder :
        /\ IsPartialName(f.name)
        /\ dl_folder' = (dl_folder \ {f}) \cup {[name |-> DownloadName(f.click), click |-> f.click]}
    /\ UNCHANGED <<dl_i, dl_pc, dl_files_before, dl_polls, dl_results, DlOther>>

\* one iteration of the wait loop that finds no complete new file: sleep(1)
DlPollAgain ==
    /\ dl_pc = "poll"
    /\ dl_polls > 0
    /\ CompleteFiles(Names(dl_folder), dl_files_before) = {}
    /\ dl_polls' = dl_polls - 1
    /\ UNCHANGED <<dl_folder, dl_i, dl_pc, dl_files_before, dl_results, DlOther>>

\* one iteration that finds complete new files: take complete_files[0] (a list
\* made from a set: any of them), rename it, return the new path, or the old
\* one when os.rename raises
DlPollFound ==
    /\ dl_pc = "poll"
    /\ dl_polls > 0
    /\ \E downloaded_file \in CompleteFiles(Names(dl_folder), dl_files_before),
          renamed \in BOOLEAN :
        LET f == FileOf(dl_folder, downloaded_file)
            new_name == NewName(ImageFilename(1, dl_i), downloaded_file)
            path == DownloadedPath(renamed, downloaded_file, new_name)
        IN  /\ dl_folder' = { g \in dl_folder : g.name \notin {downloaded_file, path} }
                             \cup {[name |-> path, click |-> f.click]}
            /\ DlReturn(downloaded_file, path, f.click)
    /\ UNCHANGED <<dl_i, dl_files_before, dl_polls, DlOther>>

\* the loop ends at download_timeout: `return None`
DlTimeout ==
    /\ dl_pc = "poll"
    /\ dl_polls = 0
    /\ DlReturn(NoneVal, NoneVal, 0)
    /\ UNCHANGED <<dl_folder, dl_i, dl_files_before, dl_polls, DlOther>>

\* process_multiple_images goes on to the next image (its steps up to the
\* download step are not shown), or the loop is over
DlNextPage ==
    /\ dl_pc = "returned"
    /\ IF dl_i < MaxDlPages THEN /\ dl_i' = dl_i + 1
                                  /\ dl_pc' = "listing"
       ELSE /\ dl_i' = dl_i
            /\ dl_pc' = "done"
    /\ UNCHANGED <<dl_folder, dl_files_before, dl_polls, dl_results, DlOther>>

DlNext == DlListBefore \/ DlClick \/ DlComplete \/ DlPollAgain \/ DlPollFound
          \/ DlTimeout \/ DlNextPage

\* ----------------------------- clean_gui_app: PDFProcessor.process_pdf
\* pdf_to_images: f"page_{i:03d}.png"
GuiImageFilename(i) == <<112, 97, 103, 101, 95>> \o Pad3(i) \o EXT_png

\* names the web site may give to a downloaded file: "a", "z.jpg", "i.png"
GuiSiteNames == SiteNames \cup { <<105>> \o EXT_png }

GpInit ==
    /\ gp_pc = "setup"
    /\ gp_image_paths = <<>>
    /\ gp_i = 0
    /\ gp_folder = {}
    /\ gp_processed_images = <<>>
    /\ gp_pdf = <<>>
    /\ gp_ret = "unset"

GpIdle ==
    /\ gp_pc = "returned"
    /\ gp_image_paths = <<>>
    /\ gp_i = 0
    /\ gp_folder = {}
    /\ gp_processed_images = <<>>
    /\ gp_pdf = <<>>
    /\ gp_ret = "unset"

GpOther ==
    <<pvars, uvars, gvars, cvvars, civars, mavars, dlvars, lgvars, rmvars, wtvars>>

\* process_pdf up to the loop: create_temp_folder, setup_chrome, pdf_to_images
\* (`return None` when one of them fails or there is no image)
GpSetup ==
    /\ gp_pc = "setup"
    /\ \E n \in 0..MaxGuiPages :
        LET paths == [i \in 1..n |-> GuiImageFilename(i)]
        IN  /\ gp_image_paths' = paths
            /\ gp_folder' = { [name |-> paths[i], page |-> i] : i \in 1..n }
            /\ gp_i' = 1
            /\ gp_pc' = IF n = 0 THEN "returned" ELSE "loop"
            /\ gp_ret' = IF n = 0 THEN "none" ELSE gp_ret
    /\ UNCHANGED <<gp_processed_images, gp_pdf, GpOther>>

\* one iteration: process_image_online returns None (an exception, or no new
\* file five seconds after the click)
GpPageNone ==
    /\ gp_pc = "loop"
    /\ gp_i <= Len(gp_image_paths)
    /\ gp_i' = gp_i + 1
    /\ UNCHANGED <<gp_pc, gp_image_paths, gp_folder, gp_processed_images, gp_pdf, gp_ret,
                   GpOther>>

\* one iteration: process_image_online returns the new file of the folder,
\* under the name the download has five seconds after the click (the name the
\* site gave, or the browser's partial name if it is still being written)
GpPageDownloaded ==
    /\ gp_pc = "loop"
    /\ gp_i <= Len(gp_image_paths)
    /\ \E n \in GuiSiteNames, partial \in BOOLEAN :
        LET downloaded == IF partial THEN n \o EXT_crdownload ELSE n
        IN  /\ n \notin Names(gp_folder)
            /\ n \o EXT_crdownload \notin Names(gp_folder)
            /\ gp_folder' = gp_folder \cup {[name |-> downloaded, page |-> gp_i]}
            /\ gp_processed_images' = Append(gp_processed_images, downloaded)
    /\ gp_i' = gp_i + 1
    /\ UNCHANGED <<gp_pc, gp_image_paths, gp_pdf, gp_ret, GpOther>>

\* the browser finishes a download: the partial file gets its name
GpComplete ==
    /\ gp_pc \in {"loop", "final"}
    /\ \E f \in gp_folder :
        /\ IsPartialName(f.name)
        /\ gp_folder' = (gp_folder \ {f})
               \cup {[name |-> SubSeq(f.name, 1, Len(f.name) - Len(EXT_crdownload)),
                      page |-> f.page]}
    /\ UNCHANGED <<gp_pc, gp_image_paths, gp_i, gp_processed_images, gp_pdf, gp_ret, GpOther>>

\* the loop is over
GpLoopEnd ==
    /\ gp_pc = "loop"
    /\ gp_i > Len(gp_image_paths)
    /\ gp_pc' = "final"
    /\ UNCHANGED <<gp_image_paths, gp_i, gp_folder, gp_processed_images, gp_pdf, gp_ret,
                   GpOther>>

\* PDFProcessor.images_to_pdf: `for img_path in sorted(image_paths)` (paths of
\* one folder), keeping those that exist
GuiImagesForPdf(list, fs) == SelectSeqBy(SortedByBasename(list), Names(fs))

\* `if processed_images and self.processing:` images_to_pdf, `return output_path`
\* (Image.open or save may raise: images_to_pdf returns False), else None
GpFinal ==
    /\ gp_pc = "final"
    /\ \E saved \in BOOLEAN :
        LET images == GuiImagesForPdf(gp_processed_images, gp_folder)
            ok == gp_processed_images # <<>> /\ images # <<>> /\ saved
        IN  /\ gp_pdf' = IF ok THEN [k \in 1..Len(images) |-> FileOf(gp_folder, images[k]).page]
                          ELSE <<>>
            /\ gp_ret' = IF ok THEN "path" ELSE "none"
    /\ gp_pc' = "returned"
    /\ UNCHANGED <<gp_image_paths, gp_i, gp_folder, gp_processed_images, GpOther>>

GpNext == GpSetup \/ GpPageNone \/ GpPageDownloaded \/ GpComplete \/ GpLoopEnd \/ GpFinal

\* -------------------------------- clean_gui_app: log_message, update_logs
\* __init__: an empty queue, and update_logs() called once, which finds it
\* empty and sets the timer
LgInit ==
    /\ lg_queue = <<>>
    /\ lg_text = <<>>
    /\ lg_pc = "idle"
    /\ lg_sent = <<>>

LgIdle == LgInit

LgOther ==
    <<pvars, uvars, gvars, cvvars, civars, mavars, dlvars, gpvars, rmvars, wtvars>>

\* log_message: self.log_queue.put(...)
LogMessage(thread) ==
    /\ Len(lg_sent) < MaxMsgs
    /\ LET message == [by |-> thread, n |-> Len(lg_sent) + 1]
       IN  /\ lg_queue' = Append(lg_queue, message)
           /\ lg_sent' = Append(lg_sent, message)
    /\ UNCHANGED <<lg_text, lg_pc, LgOther>>

\* log_message called by a handler of the GUI thread (start_processing,
\* cancel_processing, select_file, ...): not while update_logs runs
GuiLogMessage == lg_pc = "idle" /\ LogMessage("gui")

\* log_message called by process_worker, at any moment
WorkerLogMessage == LogMessage("worker")

\* the timer fires: the Tk loop calls update_logs
UlStart ==
    /\ lg_pc = "idle"
    /\ lg_pc' = "draining"
    /\ UNCHANGED <<lg_queue, lg_text, lg_sent, LgOther>>

\* queue.Queue.get_nowait: the oldest item and the rest (and a queue that
\* would give the newest)
QueueGetNewest(q) == [item |-> q[Len(q)], rest |-> SubSeq(q, 1, Len(q) - 1)]
QueueGet(q) == [item |-> Head(q), rest |-> Tail(q)]

\* one iteration of `while True`: get_nowait, insert at the end of the widget
UlInsert ==
    /\ lg_pc = "draining"
    /\ lg_queue # <<>>
    /\ lg_text' = Append(lg_text, QueueGet(lg_queue).item)
    /\ lg_queue' = QueueGet(lg_queue).rest
    /\ UNCHANGED <<lg_pc, lg_sent, LgOther>>

\* get_nowait raises queue.Empty: `pass`, then root.after(100, self.update_logs)
UlEmpty ==
    /\ lg_pc = "draining"
    /\ lg_queue = <<>>
    /\ lg_pc' = "idle"
    /\ UNCHANGED <<lg_queue, lg_text, lg_sent, LgOther>>

LgNext == GuiLogMessage \/ WorkerLogMessage \/ UlStart \/ UlInsert \/ UlEmpty

\* ------------- ImageWatermarkRemover: setup_chrome, close, __enter__, __exit__
\* __init__: driver = None, wait = None; the object is either held by a
\* caller or made by process_images_online
RmInit ==
    /\ rm_pc \in {"object", "io_start"}
    /\ rm_driver = 0
    /\ rm_wait = 0
    /\ rm_n = 0
    /\ rm_live = {}
    /\ rm_stuck = {}
    /\ rm_body = "unset"
    /\ rm_ret = "unset"

RmIdle ==
    /\ rm_pc = "idle"
    /\ rm_driver = 0
    /\ rm_wait = 0
    /\ rm_n = 0
    /\ rm_live = {}
    /\ rm_stuck = {}
    /\ rm_body = "unset"
    /\ rm_ret = "unset"

RmOther ==
    <<pvars, uvars, gvars, cvvars, civars, mavars, dlvars, gpvars, lgvars, wtvars>>

\* setup_chrome with outcome o: webdriver.Chrome() starts a session and
\* self.driver is bound to it unless o = "no_driver"; self.wait is only bound
\* when every call after it went through; True only then
SetupChrome(o) ==
    /\ rm_n < MaxSessions
    /\ IF o = "no_driver"
       THEN UNCHANGED <<rm_driver, rm_wait, rm_n, rm_live>>
       ELSE /\ rm_n' = rm_n + 1
            /\ rm_live' = rm_live \cup {rm_n + 1}
            /\ rm_driver' = rm_n + 1
            /\ rm_wait' = IF o = "ok" THEN rm_n + 1 ELSE rm_wait
    /\ UNCHANGED rm_stuck

\* close: `if self.driver:` quit() in a try whose finally sets driver and wait
\* to None; nothing at all without a driver
RemoverClose(quit_raises) ==
    IF rm_driver # 0
    THEN /\ rm_live' = rm_live \ {rm_driver}
         /\ rm_stuck' = IF quit_raises THEN rm_stuck \cup {rm_driver} ELSE rm_stuck
         /\ rm_driver' = 0
         /\ rm_wait' = 0
    ELSE UNCHANGED <<rm_driver, rm_wait, rm_live, rm_stuck>>

\* a caller that holds the object calls setup_chrome()
ObjSetupChrome ==
    /\ rm_pc = "object"
    /\ \E o \in SetupOutcomes : SetupChrome(o)
    /\ UNCHANGED <<rm_pc, rm_body, rm_ret, RmOther>>

\* a caller that holds the object calls close(), in any state
ObjClose ==
    /\ rm_pc = "object"
    /\ \E quit_raises \in BOOLEAN : RemoverClose(quit_raises)
    /\ UNCHANGED <<rm_pc, rm_n, rm_body, rm_ret, RmOther>>

\* __exit__(exc_type, exc_val, exc_tb): self.close(), whatever the arguments
ObjExit ==
    /\ rm_pc = "object"
    /\ rm_driver # 0
    /\ \E quit_raises \in BOOLEAN, exc \in BOOLEAN : RemoverClose(quit_raises)
    /\ rm_body' = "exited"
    /\ UNCHANGED <<rm_pc, rm_n, rm_ret, RmOther>>

\* process_images_online: ImageWatermarkRemover(download_folder, ...), whose
\* os.makedirs may raise
IoConstruct ==
    /\ rm_pc = "io_start"
    /\ \E makedirs_raises \in BOOLEAN :
        rm_pc' = IF makedirs_raises THEN "io_except" ELSE "io_enter"
    /\ UNCHANGED <<rm_driver, rm_wait, rm_n, rm_live, rm_stuck, rm_body, rm_ret, RmOther>>

\* `with ... as remover`: __enter__ returns self if setup_chrome() is True and
\* raises otherwise; when __enter__ raises the with statement does not call
\* __exit__
IoEnter ==
    /\ rm_pc = "io_enter"
    /\ \E o \in SetupOutcomes :
        /\ SetupChrome(o)
        /\ rm_pc' = IF o = "ok" THEN "io_body" ELSE "io_except"
    /\ UNCHANGED <<rm_body, rm_ret, RmOther>>

\* the body: `return remover.process_multiple_images(image_paths)`, which
\* returns a list, or raises (image_paths that has no len())
IoBody ==
    /\ rm_pc = "io_body"
    /\ rm_body' \in {"list", "raised"}
    /\ rm_pc' = "io_exit"
    /\ UNCHANGED <<rm_driver, rm_wait, rm_n, rm_live, rm_stuck, rm_ret, RmOther>>

\* leaving the with block: __exit__ closes and returns None, so an exception of
\* the body goes on to the except clause
IoExit ==
    /\ rm_pc = "io_exit"
    /\ \E quit_raises \in BOOLEAN : RemoverClose(quit_raises)
    /\ IF rm_body = "raised"
       THEN rm_pc' = "io_except" /\ rm_ret' = rm_ret
       ELSE rm_pc' = "io_returned" /\ rm_ret' = "list"
    /\ UNCHANGED <<rm_n, rm_body, RmOther>>

\* `except Exception as e: print(...); return []`
IoExcept ==
    /\ rm_pc = "io_except"
    /\ rm_ret' = "empty"
    /\ rm_pc' = "io_returned"
    /\ UNCHANGED <<rm_driver, rm_wait, rm_n, rm_live, rm_stuck, rm_body, RmOther>>

\* the next call of process_images_online makes a new object; the one of the
\* call before is dropped as it was
IoCallAgain ==
    /\ rm_pc = "io_returned"
    /\ rm_n < MaxSessions
    /\ rm_pc' = "io_start"
    /\ rm_driver' = 0
    /\ rm_wait' = 0
    /\ rm_body' = "unset"
    /\ rm_ret' = "unset"
    /\ UNCHANGED <<rm_n, rm_live, rm_stuck, RmOther>>

RmNext ==
    \/ ObjSetupChrome \/ ObjClose \/ ObjExit
    \/ IoConstruct \/ IoEnter \/ IoBody \/ IoExit \/ IoExcept \/ IoCallAgain

\* ------------------ process_multiple_images: the waits and the selector lists
page_timeout == 30
processing_timeout == 120
download_timeout == 60
\* handle_popups: WebDriverWait(self.driver, 3)
popup_wait == 3

popup_selectors ==
    <<".modal", ".popup", ".overlay", ".hb-modal-img", ".advertisement", "[role='dialog']",
      ".cookie-banner">>

processing_selectors ==
    <<".loading", ".processing", ".spinner", ".progress", "[data-processing='true']",
      ".uploading">>

download_selectors ==
    <<"button[data-test-id*=\"download\"]", "button[data-testid*=\"download\"]",
      ".download-btn", ".btn-download", "button[download]", "a[download]",
      "button:contains(\"Download\")", "button:contains(\"Descargar\")", ".download-button">>

\* :contains() is not CSS: the driver raises InvalidSelectorException for these
InvalidSelectors == {"button:contains(\"Download\")", "button:contains(\"Descargar\")"}

\* the phases that sit in a WebDriverWait or in the polling loop, with the
\* timeout of each
WaitTimeout(p) ==
    CASE p \in {"navigate", "upload"} -> page_timeout
      [] p \in {"popups1", "popups2"} -> popup_wait
      [] p \in {"indicator_wait", "buttons"} -> processing_timeout
      [] p = "download" -> download_timeout
      [] OTHER -> 0

\* until(): the wait gives up once the timeout has passed (and a wait that would
\* never give up)
WaitExpiredNever(elapsed, timeout) == FALSE
WaitExpired(elapsed, timeout) == elapsed >= timeout

Elapse(elapsed, timeout) ==
    IF elapsed + SecondsPerStep > timeout THEN timeout ELSE elapsed + SecondsPerStep

WtInit ==
    /\ wt_pc = "pmi_loop"
    /\ wt_n \in 0..MaxWtImages
    /\ wt_i = 1
    /\ wt_iters = 0
    /\ wt_processed = 0
    /\ wt_k = 1
    /\ wt_elapsed = 0
    /\ wt_match = 0
    /\ wt_ready = FALSE
    /\ wt_shown = 0
    /\ wt_waited = 0
    /\ wt_tried = <<>>
    /\ wt_button = -1
    /\ wt_ret = "unset"

WtIdle ==
    /\ wt_pc = "idle"
    /\ wt_n = 0
    /\ wt_i = 1
    /\ wt_iters = 0
    /\ wt_processed = 0
    /\ wt_k = 1
    /\ wt_elapsed = 0
    /\ wt_match = 0
    /\ wt_ready = FALSE
    /\ wt_shown = 0
    /\ wt_waited = 0
    /\ wt_tried = <<>>
    /\ wt_button = -1
    /\ wt_ret = "unset"

WtOther == <<pvars, uvars, gvars, cvvars, civars, mavars, dlvars, gpvars, lgvars, rmvars>>

\* what the batch keeps while one image is processed
WtBatch == <<wt_n, wt_i, wt_iters, wt_processed>>
\* what wait_for_processing_completion has noted
WtNoted == <<wt_match, wt_ready, wt_shown, wt_waited, wt_tried, wt_button>>

\* go to phase p, at the head of its selector list, with a fresh wait
WtGoto(p) ==
    /\ wt_pc' = p
    /\ wt_k' = 1
    /\ wt_elapsed' = 0

\* process_single_image returns r
WtReturn(r) ==
    /\ wt_pc' = "psi_returned"
    /\ wt_ret' = r
    /\ wt_k' = 1
    /\ wt_elapsed' = 0

\* the for loop of process_multiple_images: the next image, or the return
PmiLoop ==
    /\ wt_pc = "pmi_loop"
    /\ IF wt_i <= wt_n
       THEN /\ WtGoto("navigate")
            /\ wt_match' = 0
            /\ wt_ready' = FALSE
            /\ wt_shown' = 0
            /\ wt_waited' = 0
            /\ wt_tried' = <<>>
            /\ wt_button' = -1
            /\ wt_ret' = "unset"
       ELSE /\ wt_pc' = "pmi_returned"
            /\ UNCHANGED <<wt_k, wt_elapsed, wt_ret, WtNoted>>
    /\ UNCHANGED <<WtBatch, WtOther>>

\* time passes in a wait whose condition is still false
WtTick ==
    /\ wt_pc \in {"navigate", "upload", "popups1", "popups2", "indicator_wait", "buttons",
                  "download"}
    /\ wt_pc = "buttons" =>
           /\ wt_k <= Len(download_selectors)
           /\ download_selectors[wt_k] \notin InvalidSelectors
    /\ ~WaitExpired(wt_elapsed, WaitTimeout(wt_pc))
    /\ wt_elapsed' = Elapse(wt_elapsed, WaitTimeout(wt_pc))
    /\ UNCHANGED <<wt_pc, wt_k, wt_ret, WtBatch, WtNoted, WtOther>>

\* navigate_to_site: the page and its body are there in time
NavLoaded ==
    /\ wt_pc = "navigate"
    /\ WtGoto("upload")
    /\ UNCHANGED <<wt_ret, WtBatch, WtNoted, WtOther>>

\* navigate_to_site: TimeoutException, `return False`, so `return None`
NavTimeout ==
    /\ wt_pc = "navigate"
    /\ WaitExpired(wt_elapsed, WaitTimeout(wt_pc))
    /\ WtReturn("none")
    /\ UNCHANGED <<WtBatch, WtNoted, WtOther>>

\* find_upload_input: the element of selector wt_k is there and enabled;
\* send_keys, `return True`
UploadFound ==
    /\ wt_pc = "upload"
    /\ WtGoto("popups1")
    /\ UNCHANGED <<wt_ret, WtBatch, WtNoted, WtOther>>

\* the next entry of a list of `last` selectors, or `done` after the last one
NextSelector(last, done) ==
    IF wt_k < last
    THEN /\ wt_k' = wt_k + 1
         /\ wt_elapsed' = 0
         /\ UNCHANGED <<wt_pc, wt_ret>>
    ELSE done

\* find_upload_input: selector wt_k timed out, `continue`; None after the last
UploadTimeout ==
    /\ wt_pc = "upload"
    /\ WaitExpired(wt_elapsed, WaitTimeout(wt_pc))
    /\ NextSelector(NumSelectors, WtReturn("none"))
    /\ UNCHANGED <<WtBatch, WtNoted, WtOther>>

\* where process_single_image goes after handle_popups
AfterPopupsPhase(p) == IF p = "popups1" THEN "processing" ELSE "download"

\* handle_popups: a popup is there: the close buttons are tried, then ESC;
\* `return True` or `break`
PopupSeen ==
    /\ wt_pc \in {"popups1", "popups2"}
    /\ WtGoto(AfterPopupsPhase(wt_pc))
    /\ UNCHANGED <<wt_ret, WtBatch, WtNoted, WtOther>>

\* handle_popups: no popup for selector wt_k within 3 s, `continue`
PopupTimeout ==
    /\ wt_pc \in {"popups1", "popups2"}
    /\ WaitExpired(wt_elapsed, WaitTimeout(wt_pc))
    /\ NextSelector(Len(popup_selectors),
                    WtGoto(AfterPopupsPhase(wt_pc)) /\ UNCHANGED wt_ret)
    /\ UNCHANGED <<WtBatch, WtNoted, WtOther>>

\* wait_for_processing_completion, first loop: find_element for indicator
\* wt_k; absent or hidden: `continue`; displayed: wait for it to go
IndicatorProbe ==
    /\ wt_pc = "processing"
    /\ wt_k <= Len(processing_selectors)
    /\ \E displayed \in BOOLEAN :
        IF displayed
        THEN /\ wt_pc' = "indicator_wait"
             /\ wt_shown' = wt_shown + 1
             /\ UNCHANGED wt_k
        ELSE /\ wt_k' = wt_k + 1
             /\ UNCHANGED <<wt_pc, wt_shown>>
    /\ wt_elapsed' = 0
    /\ UNCHANGED <<wt_ret, wt_match, wt_ready, wt_waited, wt_tried, wt_button, WtBatch,
                   WtOther>>

\* the wait for indicator wt_k ends, because it went or after
\* processing_timeout (the bare except): on to the next indicator
IndicatorWaitEnds ==
    /\ wt_pc' = "processing"
    /\ wt_k' = wt_k + 1
    /\ wt_elapsed' = 0
    /\ wt_waited' = wt_waited + 1
    /\ UNCHANGED <<wt_ret, wt_match, wt_ready, wt_shown, wt_tried, wt_button, WtBatch,
                   WtOther>>

IndicatorGone ==
    /\ wt_pc = "indicator_wait"
    /\ IndicatorWaitEnds

IndicatorTimeout ==
    /\ wt_pc = "indicator_wait"
    /\ WaitExpired(wt_elapsed, WaitTimeout(wt_pc))
    /\ IndicatorWaitEnds

\* the first loop is over: the second loop starts at the first download
\* selector; the site's button matches one selector or none
StartButtons ==
    /\ wt_pc = "processing"
    /\ wt_k > Len(processing_selectors)
    /\ WtGoto("buttons")
    /\ wt_match' \in 0..Len(download_selectors)
    /\ UNCHANGED <<wt_ret, wt_ready, wt_shown, wt_waited, wt_tried, wt_button, WtBatch,
                   WtOther>>

\* the site finishes its work: the button can be clicked from now on
SiteReady ==
    /\ wt_pc = "buttons"
    /\ wt_match # 0
    /\ ~wt_ready
    /\ wt_ready' = TRUE
    /\ UNCHANGED <<wt_pc, wt_k, wt_elapsed, wt_ret, wt_match, wt_shown, wt_waited, wt_tried,
                   wt_button, WtBatch, WtOther>>

\* second loop: the selector probed after one that gave nothing: `continue`
\* (and a loop that would end there)
AfterProbeFailureGiveUp(k) == Len(download_selectors) + 1
AfterProbeFailure(k) == k + 1

\* selector wt_k gave no clickable element: it is invalid and until() raised
\* at once, or the wait timed out; the bare except, `continue`
ButtonSkipped ==
    /\ wt_pc = "buttons"
    /\ wt_k <= Len(download_selectors)
    /\ \/ download_selectors[wt_k] \in InvalidSelectors
       \/ WaitExpired(wt_elapsed, WaitTimeout(wt_pc))
    /\ wt_tried' = Append(wt_tried, wt_k)
    /\ wt_k' = AfterProbeFailure(wt_k)
    /\ wt_elapsed' = 0
    /\ UNCHANGED <<wt_pc, wt_ret, wt_match, wt_ready, wt_shown, wt_waited, wt_button, WtBatch,
                   WtOther>>

\* selector wt_k finds the site's button clickable: `return download_button`;
\* process_single_image goes on with handle_popups
ButtonClickable ==
    /\ wt_pc = "buttons"
    /\ wt_k <= Len(download_selectors)
    /\ download_selectors[wt_k] \notin InvalidSelectors
    /\ wt_match = wt_k
    /\ wt_ready
    /\ wt_tried' = Append(wt_tried, wt_k)
    /\ wt_button' = wt_k
    /\ WtGoto("popups2")
    /\ UNCHANGED <<wt_ret, wt_match, wt_ready, wt_shown, wt_waited, WtBatch, WtOther>>

\* the list is exhausted: `return None`, and process_single_image returns None
ButtonNone ==
    /\ wt_pc = "buttons"
    /\ wt_k > Len(download_selectors)
    /\ wt_button' = 0
    /\ WtReturn("none")
    /\ UNCHANGED <<wt_match, wt_ready, wt_shown, wt_waited, wt_tried, WtBatch, WtOther>>

\* download_processed_image: a complete new file is in the folder
DownloadDone ==
    /\ wt_pc = "download"
    /\ WtReturn("path")
    /\ UNCHANGED <<WtBatch, WtNoted, WtOther>>

\* download_processed_image: the while loop ends at download_timeout
DownloadTimeout ==
    /\ wt_pc = "download"
    /\ WaitExpired(wt_elapsed, WaitTimeout(wt_pc))
    /\ WtReturn("none")
    /\ UNCHANGED <<WtBatch, WtNoted, WtOther>>

\* process_multiple_images: append the result if there is one, next image
PmiRecord ==
    /\ wt_pc = "psi_returned"
    /\ wt_processed' = IF wt_ret = "path" THEN wt_processed + 1 ELSE wt_processed
    /\ wt_iters' = wt_iters + 1
    /\ wt_i' = wt_i + 1
    /\ wt_pc' = "pmi_loop"
    /\ UNCHANGED <<wt_n, wt_k, wt_elapsed, wt_ret, WtNoted, WtOther>>

\* what the site does, when it likes
WtSite ==
    \/ NavLoaded \/ UploadFound \/ PopupSeen \/ IndicatorGone \/ SiteReady \/ DownloadDone

\* what the program does by itself, time passing included
WtProgram ==
    \/ PmiLoop \/ WtTick \/ NavTimeout \/ UploadTimeout \/ PopupTimeout
    \/ IndicatorProbe \/ IndicatorTimeout \/ StartButtons
    \/ ButtonSkipped \/ ButtonClickable \/ ButtonNone \/ DownloadTimeout \/ PmiRecord

WtNext == WtSite \/ WtProgram

\* ---------------------------------------------------------- specifications
TIdle == CvIdle /\ CiIdle /\ MaIdle /\ DlIdle /\ GpIdle /\ LgIdle /\ RmIdle /\ WtIdle

PIdle ==
    /\ PDF2IMAGE_AVAILABLE = TRUE
    /\ pdf_files = <<>>
    /\ bi = 0
    /\ results = <<>>
    /\ successful = 0
    /\ failed = 0
    /\ pc = "mp_done"
    /\ pdf_exists = FALSE
    /\ original_size = 1
    /\ temp_folder = "unset"
    /\ image_paths = <<>>
    /\ watermark_remover = FALSE
    /\ driver = "none"
    /\ processed_images = <<>>
    /\ chrome = "unset"
    /\ success = "unset"
    /\ ret = "unset"
    /\ folder = {}
    /\ outputs = {}
    /\ final_pdf = <<>>
    /\ steps = <<>>
    /\ ii = 0
    /\ ipc = "idle"
    /\ img = NewImg
    /\ outcomes = <<>>

\* the command-line pipeline: process_multiple_pdfs over a folder
Init == PInit /\ UIdle /\ GInit /\ TIdle
Next == PNext
Spec == Init /\ [][Next]_vars

\* find_upload_input against every page
InitUpload == PIdle /\ UInit /\ GInit /\ TIdle
NextUpload == UNext
SpecUpload == InitUpload /\ [][NextUpload]_vars

\* the desktop application: the Tk thread and the worker threads
InitGui == PIdle /\ UIdle /\ GInit /\ TIdle
NextGui == GNext
SpecGui == InitGui /\ [][NextGui]_vars

\* the same with the threads scheduled: a worker thread that can take a step
\* takes one, and the Tk loop runs the callbacks that are due
SpecGuiLive ==
    /\ InitGui
    /\ [][NextGui]_vars
    /\ WF_vars(RunFinishProcessing)
    /\ WF_vars(RunDialog)
    /\ \A r \in RunIds : WF_vars(Worker(r))

\* convert_pdf_to_images(pdf_path, output_folder, dpi) against every input
InitConv ==
    /\ PIdle /\ UIdle /\ GInit /\ CvInit /\ CiIdle /\ MaIdle /\ DlIdle /\ GpIdle
    /\ LgIdle /\ RmIdle /\ WtIdle
NextConv == CvNext
SpecConv == InitConv /\ [][NextConv]_vars

\* convert_images_to_pdf(image_paths, output_pdf_path) against every input
InitToPdf ==
    /\ PIdle /\ UIdle /\ GInit /\ CvIdle /\ CiInit /\ MaIdle /\ DlIdle /\ GpIdle
    /\ LgIdle /\ RmIdle /\ WtIdle
NextToPdf == CiNext
SpecToPdf == InitToPdf /\ [][NextToPdf]_vars

\* the packaged application: the Tk thread and the process_pdf thread
InitMain ==
    /\ PIdle /\ UIdle /\ GInit /\ CvIdle /\ CiIdle /\ MaInit /\ DlIdle /\ GpIdle
    /\ LgIdle /\ RmIdle /\ WtIdle
NextMain == MaNext
SpecMain == InitMain /\ [][NextMain]_vars

\* the download steps of the pages of one process_multiple_images call, with
\* the browser writing its downloads at its own pace
InitDownload ==
    /\ PIdle /\ UIdle /\ GInit /\ CvIdle /\ CiIdle /\ MaIdle /\ DlInit /\ GpIdle
    /\ LgIdle /\ RmIdle /\ WtIdle
NextDownload == DlNext
SpecDownload == InitDownload /\ [][NextDownload]_vars

\* PDFProcessor.process_pdf of the desktop application, with its files
InitGuiPdf ==
    /\ PIdle /\ UIdle /\ GInit /\ CvIdle /\ CiIdle /\ MaIdle /\ DlIdle /\ GpInit
    /\ LgIdle /\ RmIdle /\ WtIdle
NextGuiPdf == GpNext
SpecGuiPdf == InitGuiPdf /\ [][NextGuiPdf]_vars

\* the log of the desktop application: both threads write, the Tk loop polls
InitLog ==
    /\ PIdle /\ UIdle /\ GInit /\ CvIdle /\ CiIdle /\ MaIdle /\ DlIdle /\ GpIdle
    /\ LgInit /\ RmIdle /\ WtIdle
NextLog == LgNext
SpecLog == InitLog /\ [][NextLog]_vars

\* the same while the Tk loop keeps polling: the timer fires, update_logs runs on
SpecLogLive ==
    /\ InitLog
    /\ [][NextLog]_vars
    /\ WF_vars(UlStart)
    /\ WF_vars(UlInsert)
    /\ WF_vars(UlEmpty)

\* the remover held by a caller, or made and used by process_images_online
InitRemover ==
    /\ PIdle /\ UIdle /\ GInit /\ CvIdle /\ CiIdle /\ MaIdle /\ DlIdle /\ GpIdle
    /\ LgIdle /\ RmInit /\ WtIdle
NextRemover == RmNext
SpecRemover == InitRemover /\ [][NextRemover]_vars

\* process_multiple_images against the site, with the program running and
\* time passing; the site is free to do nothing
InitSite ==
    /\ PIdle /\ UIdle /\ GInit /\ CvIdle /\ CiIdle /\ MaIdle /\ DlIdle /\ GpIdle
    /\ LgIdle /\ RmIdle /\ WtInit
NextSite == WtNext
SpecSite == InitSite /\ [][NextSite]_vars /\ WF_vars(WtProgram)

\* ------------------------------------------------------------ properties
IsPrefix(a, b) == Len(a) <= Len(b) /\ \A k \in 1..Len(a) : a[k] = b[k]

Increasing(s) == \A i, j \in 1..Len(s) : i < j => s[i] < s[j]

RECURSIVE NonNoneResults(_)
NonNoneResults(os) ==
    IF os = <<>> THEN <<>>
    ELSE (IF Head(os).result # NoneVal THEN <<Head(os).result>> ELSE <<>>)
         \o NonNoneResults(Tail(os))

\* C1: the pages of every output PDF written by process_single_pdf are in the
\* relative order of the source pages they were made from.
C1_PagesKeepSourceOrder == Increasing(final_pdf)

\* C2: process_multiple_images attempts the images once each in input order;
\* a failed image appends nothing and does not stop the loop; the list it
\* returns is the results of the successful images in input order.
C2_EveryImageOnceInOrder ==
    /\ \A k \in 1..Len(outcomes) : outcomes[k].image = image_paths[k]
    /\ Len(outcomes) <= Len(image_paths)
    /\ pc \in {"pmi_loop", "psi"} => Len(outcomes) = ii - 1
    /\ processed_images = NonNoneResults(outcomes)
    /\ Len(processed_images) <= Len(image_paths)
    /\ pc \in {"sp_inner_finally", "sp_step5", "sp_stats"} =>
           Len(outcomes) = Len(image_paths)

\* C2 witness: the loop is over, the first image failed and the second did not
C2_Witness ==
    /\ pc = "sp_inner_finally"
    /\ Len(outcomes) = 2
    /\ outcomes[1].result = NoneVal
    /\ outcomes[2].result # NoneVal

\* the source pages whose process_single_image returned a path
ProcessedPages == { k \in 1..Len(outcomes) : outcomes[k].result # NoneVal }

\* C3: when at least one page was processed and reassembly succeeded,
\* process_single_pdf returns the path of a written PDF that holds one page per
\* successfully processed page and none for a failed page.
C3_PathAndOnePagePerProcessedPage ==
    (pc = "sp_returned" /\ processed_images # <<>> /\ success = "yes") =>
        /\ ret = "path"
        /\ CurPdf \in outputs
        /\ Len(final_pdf) = Len(processed_images)
        /\ { final_pdf[k] : k \in 1..Len(final_pdf) } = ProcessedPages

\* the failure cases of process_single_pdf
InputMissing == ~pdf_exists
TempFolderFailed == temp_folder = "failed"
NoImages == 3 \in { steps[k] : k \in 1..Len(steps) } /\ image_paths = <<>>
BrowserFailed == chrome = "failed"
NoPageProcessed == chrome = "ok" /\ processed_images = <<>>
ReassemblyFailed == success = "no"

C5_StepsInOrderBrowserBracketed ==
    /\ IsPrefix(steps, <<1, 2, 3, 4, 5>>)
    /\ driver = "open" => (IsPrefix(<<1, 2, 3, 4>>, steps) /\ image_paths # <<>>)
    /\ (pc = "sp_step5" \/ IsPrefix(<<1, 2, 3, 4, 5>>, steps)) => driver = "none"

\* C5 witness: reassembly has run after pages were processed in the browser
C5_Witness ==
    /\ pc = "sp_stats"
    /\ steps = <<1, 2, 3, 4, 5>>
    /\ Len(outcomes) = 2

\* C6: process_multiple_pdfs takes the matched PDFs one at a time in sorted
\* order; a PDF is started only after the previous call returned with the
\* browser closed and the temp-folder cleanup attempted; the list returned has
\* one record per matched PDF, in that order, with index 1..n.
C6_OneAtATimeInSortedOrder ==
    /\ pc # "mp_start" => Increasing(pdf_files)
    /\ \A k \in 1..Len(results) :
           results[k].index = k /\ results[k].input_file = pdf_files[k]
    /\ pc \in {"mp_loop", "sp_exists"} =>
           /\ Len(results) = bi - 1
           /\ driver = "none"
           /\ temp_folder # "created"
    /\ pc \notin {"mp_start", "mp_loop", "mp_done"} => Len(results) = bi - 1
    /\ pc = "mp_done" => Len(results) = Len(pdf_files)

\* C6 witness: two PDFs were processed, the first failed after its browser ran
C6_Witness ==
    /\ pc = "mp_done"
    /\ Len(results) = 2
    /\ ~results[1].success
    /\ results[2].success

\* C7: find_upload_input probes the selectors in list order, each at most
\* once, returns the element of the first selector that gives an enabled
\* element, and returns None exactly when no selector does.
C7_FirstEnabledSelector ==
    /\ \A k \in 1..Len(fu_tried) : fu_tried[k] = k
    /\ fu_ret > 0 =>
           /\ fu_site[fu_ret] = "enabled"
           /\ \A k \in 1..(fu_ret - 1) : fu_site[k] # "enabled"
           /\ Len(fu_tried) = fu_ret
    /\ fu_ret = 0 =>
           /\ \A k \in 1..NumSelectors : fu_site[k] # "enabled"
           /\ Len(fu_tried) = NumSelectors
    /\ fu_ret >= 0 => fu_ret = FindUploadInput(fu_site)

\* C7 witness: the third selector's element is returned after a disabled
\* element and a timeout
C7_Witness ==
    /\ fu_ret = 3
    /\ fu_site[1] = "disabled"
    /\ fu_site[2] = "timeout"

ImageSteps == <<"navigate", "upload", "popups", "wait", "popups", "download">>

Ran(step) == \E k \in 1..Len(img.steps) : img.steps[k] = step

\* C8: process_single_image runs navigate, upload, wait, download in that
\* order; a failed navigation, upload or wait ends it with None before the
\* next of them; the result of handle_popups never decides the next step.
C8_ImageStepsShortCircuit ==
    /\ IsPrefix(img.steps, ImageSteps)
    /\ img.nav = "fail" => ~Ran("upload")
    /\ img.upload = "fail" => ~Ran("wait")
    /\ img.button = "fail" => ~Ran("download")
    /\ ipc = "return_none" =>
           \/ (img.nav = "fail" /\ img.steps = SubSeq(ImageSteps, 1, 1))
           \/ (img.upload = "fail" /\ img.steps = SubSeq(ImageSteps, 1, 2))
           \/ (img.button = "fail" /\ img.steps = SubSeq(ImageSteps, 1, 4))
    /\ ipc = "wait" <=> (pc = "psi" /\ img.steps = SubSeq(ImageSteps, 1, 3))
    /\ ipc = "download" <=> (pc = "psi" /\ img.steps = SubSeq(ImageSteps, 1, 5))
    /\ (ipc = "idle" /\ outcomes # <<>>
            /\ (img.nav = "fail" \/ img.upload = "fail" \/ img.button = "fail")) =>
           outcomes[Len(outcomes)].result = NoneVal

\* C8 witness: an image whose upload failed has returned None
C8_Witness ==
    /\ ipc = "idle"
    /\ outcomes # <<>>
    /\ img.upload = "fail"
    /\ img.steps = <<"navigate", "upload">>

\* the worker threads that are running
Running == { r \in RunIds : workers[r].pc \notin {"none", "w_done"} }

\* C9: at most one worker thread runs at a time; a run is started only after
\* finish_processing of the run before it.
C9_OneWorkerAtATime ==
    /\ Cardinality(Running) <= 1
    /\ \A r \in RunIds : (r > 1 /\ workers[r].pc # "none") => hist[r - 1].finished >= 1
    /\ Running # {} => start_btn = "disabled"

\* C9 witness: a second run is processing a page after the first was cancelled
C9_Witness ==
    /\ runs = 2
    /\ hist[1].cancelled
    /\ workers[2].pc = "w_inflight"

\* C10: once cancel_processing was invoked in a run, the worker starts no
\* further page, writes no output PDF and schedules no success dialog.
C10_CancelStopsTheRun ==
    \A r \in RunIds :
        /\ ~hist[r].late_submit
        /\ ~hist[r].late_pdf
        /\ ~hist[r].late_success

\* C11: every path in the list convert_pdf_to_images returns names an image
\* file that exists when the function returns, with and without output_folder.
C11_ReturnedPathsExist ==
    cv_pc = "returned" => \A k \in 1..Len(cv_ret) : cv_ret[k] \in cv_disk

\* the entries of the argument list, in sorted order, whose file has status st
CiEntries(st) ==
    SelectSeqBy(SortedByBasename(ci_image_paths), { n \in CiNames : ci_files[n] \in st })

\* C12: convert_images_to_pdf returns False and writes nothing when the list
\* is empty, no path exists or no existing image opens; a missing or unreadable
\* image is skipped and does not fail the conversion; True is returned only
\* with the PDF written, holding one page per opened image.
C12_ConvertImagesToPdf ==
    ci_pc = "returned" =>
        /\ (ci_image_paths = <<>> \/ CiEntries({"ok", "unopenable"}) = <<>>
                \/ CiEntries({"ok"}) = <<>>) =>
               (ci_ret = "false" /\ ci_save = "unset" /\ ci_pdf = <<>>)
        /\ (ci_pil /\ CiEntries({"ok"}) # <<>>) =>
               (ci_save # "unset" /\ (ci_save = "written" => ci_ret = "true"))
        /\ ci_ret = "true" =>
               (ci_save = "written" /\ ci_pdf = CiEntries({"ok"}) /\ ci_pdf # <<>>)

\* C12 witness: True was returned for a list with an unreadable image in it
C12_Witness ==
    /\ ci_pc = "returned"
    /\ ci_ret = "true"
    /\ Len(ci_image_paths) = 2
    /\ ci_files[ci_image_paths[1]] = "unopenable"

\* C13: in the packaged application a run started with a PDF selected (and
\* the ProcessedPDFs folder there or made) ends with processed_<name> in
\* ProcessedPDFs and the success message.
C13_RunEndsWithProcessedFile ==
    (ma_runs > 0 /\ ma_pc = "idle" /\ ma_output_file # 0) =>
        /\ ma_output_file \in ma_processed
        /\ ma_msg = "success"

\* C14: on every exit of process_single_pdf taken after the temp folder was
\* made, the browser is closed and the removal of the temp folder was
\* attempted before the return; the temp folder is removed only at the end of
\* the call, so on the success path after the final PDF was written, and
\* reassembly starts with the processed images still in the folder.
C14_CleanupOnEveryExit ==
    /\ (pc = "sp_returned" /\ temp_folder \notin {"unset", "failed"}) =>
           /\ driver = "none"
           /\ temp_folder \in {"removed", "remove_failed"}
    /\ temp_folder \in {"removed", "remove_failed"} =>
           pc \in {"sp_returned", "mp_loop", "mp_done"}
    /\ pc = "sp_step5" =>
           /\ temp_folder = "created"
           /\ \A k \in 1..Len(processed_images) : processed_images[k] \in Names(folder)
    /\ (pc = "sp_returned" /\ ret = "path" /\ temp_folder = "removed") =>
           (success = "yes" /\ final_pdf # <<>> /\ CurPdf \in outputs)

\* C14 witness: the success path has returned with the temp folder removed,
\* for the PDF after one that failed
C14_Witness ==
    /\ pc = "sp_returned"
    /\ temp_folder = "removed"
    /\ ret = "path"
    /\ Len(results) = 1
    /\ ~results[1].success

\* the result of the download step that has just returned
LastResult == dl_results[Len(dl_results)]

\* C15: download_processed_image returns a path only for a file that was not
\* in the listing taken before the click and whose name has no partial-download
\* suffix; an iteration that sees no such file returns nothing before the
\* timeout, and the timeout returns None.
C15_ReturnsOnlyNewCompleteFile ==
    /\ [](dl_pc = "returned" /\ LastResult.path # NoneVal =>
             /\ LastResult.src \notin dl_files_before
             /\ ~IsPartialName(LastResult.src)
             /\ LastResult.path \in Names(dl_folder))
    /\ [][(dl_pc = "poll" /\ CompleteFiles(Names(dl_folder), dl_files_before) = {}
               /\ <<dl_pc, dl_polls>>' # <<dl_pc, dl_polls>>) =>
             IF dl_polls > 0 THEN (dl_pc' = "poll" /\ dl_results' = dl_results)
             ELSE (dl_pc' = "returned" /\ dl_results'[Len(dl_results')].path = NoneVal)]_dlvars

\* C15 witness: a download was returned after an iteration that saw only its
\* partial file, with an older file of the folder left alone
C15_Witness ==
    /\ dl_pc = "returned"
    /\ LastResult.path # NoneVal
    /\ dl_polls < MaxPolls
    /\ dl_i = 2
    /\ dl_results[1].path # NoneVal

\* C16: the file returned for a page was downloaded by that page's own click,
\* and no download is returned for two pages.
C16_ResultComesFromOwnClick ==
    /\ \A k \in 1..Len(dl_results) :
           dl_results[k].path # NoneVal => dl_results[k].click = k
    /\ \A j, k \in 1..Len(dl_results) :
           (j # k /\ dl_results[j].path # NoneVal /\ dl_results[k].path # NoneVal) =>
               dl_results[j].click # dl_results[k].click

\* C17: the pages of the PDF written by PDFProcessor.process_pdf are in the
\* relative order of the source pages, whatever the downloads are named.
C17_GuiPagesKeepSourceOrder == Increasing(gp_pdf)

\* C18: every run started makes finish_processing run, and no more than
\* once, whether it succeeds, fails, raises or is cancelled; finish_processing
\* leaves processing False, the start button enabled, the cancel button
\* disabled and the progress text "Listo".
C18_FinishProcessingOnce ==
    /\ [](\A r \in RunIds : hist[r].finished <= 1)
    /\ [][(\E r \in RunIds : hist'[r].finished # hist[r].finished) =>
             /\ g_processing' = FALSE
             /\ start_btn' = "normal"
             /\ cancel_btn' = "disabled"
             /\ progress_var' = "Listo"]_gvars
    /\ \A r \in RunIds : (workers[r].pc = "w_create") ~> (hist[r].finished = 1)

\* C18 witness: a cancelled run and a run that raised have both been finished
C18_Witness ==
    /\ hist[1].cancelled
    /\ hist[1].finished = 1
    /\ hist[2].raised
    /\ hist[2].finished = 1

\* C19: a run schedules at most one outcome dialog, the success dialog only
\* when process_pdf returned the path of a PDF it wrote, and a run that was
\* not cancelled has shown exactly one dialog when it is finished.
C19_OneOutcomeDialog ==
    \A r \in RunIds :
        /\ hist[r].dialogs <= 1
        /\ hist[r].success_dialog => hist[r].pdf
        /\ (hist[r].finished = 1 /\ ~hist[r].cancelled) => hist[r].shown = 1

\* C20: every message passed to log_message, by the GUI thread or the worker,
\* is inserted into the log widget once, in the order of the puts, and only
\* by update_logs; while the Tk loop keeps polling every message is inserted.
C20_LogMessagesOnceInOrder ==
    /\ [](lg_text \o lg_queue = lg_sent)
    /\ [][lg_text' # lg_text =>
             (lg_pc = "draining" /\ lg_pc' = "draining"
              /\ lg_text' = Append(lg_text, Head(lg_queue)))]_lgvars
    /\ \A k \in 1..MaxMsgs : (Len(lg_sent) >= k) ~> (Len(lg_text) >= k)

\* C20 witness: a message of the GUI thread and then one of the worker are in
\* the widget, and one put during the drain is still queued
C20_Witness ==
    /\ Len(lg_text) = 2
    /\ lg_text[1].by = "gui"
    /\ lg_text[2].by = "worker"
    /\ lg_pc = "draining"
    /\ lg_queue # <<>>

\* C21: in process_multiple_pdfs every matched PDF is processed whatever
\* happened to the ones before it; the record appended for a PDF has success
\* true exactly when process_single_pdf returned a path for it; at the end
\* successful + failed is the number of matched PDFs.
C21_FailedPdfDoesNotStopBatch ==
    /\ [](pc = "mp_done" =>
            /\ Len(results) = Len(pdf_files)
            /\ successful + failed = Len(pdf_files)
            /\ successful = Cardinality({k \in 1..Len(results) : results[k].success})
            /\ \A k \in 1..Len(results) : results[k].input_file = pdf_files[k])
    /\ [][pc = "sp_returned" =>
            /\ Len(results') = Len(results) + 1
            /\ results'[Len(results')].input_file = pdf_files[bi]
            /\ results'[Len(results')].success = (ret = "path")
            /\ successful' + failed' = successful + failed + 1
            /\ pc' = "mp_loop" /\ bi' = bi + 1]_pvars

\* C21 witness: the batch is over, the first PDF failed and the second one was
\* processed and gave a path
C21_Witness ==
    /\ pc = "mp_done"
    /\ Len(pdf_files) = 2
    /\ ~results[1].success
    /\ results[2].success
    /\ failed = 1

\* C22: no browser session started by ImageWatermarkRemover outlives its use:
\* whenever close() or __exit__ has left the object without a driver it has no
\* wait either (driver is only None at construction and after a close), and
\* process_images_online returns a list, without raising, with no driver left
\* on the object and quit() called on every session it started.
C22_NoSessionOutlivesItsUse ==
    /\ rm_driver = 0 => rm_wait = 0
    /\ rm_pc = "io_returned" =>
           /\ rm_ret \in {"list", "empty"}
           /\ rm_driver = 0
           /\ rm_live = {}

\* C23: whatever the site does, no wait of process_single_image lasts longer
\* than its timeout (page 30 s, processing and download button 120 s,
\* download polling 60 s), every image that is started is finished, and
\* process_multiple_images returns, after exactly len(image_paths) iterations.
C23_EveryWaitIsBounded ==
    /\ [](wt_elapsed <= WaitTimeout(wt_pc))
    /\ [](wt_pc \in {"navigate", "upload"} => wt_elapsed <= 30)
    /\ [](wt_pc \in {"indicator_wait", "buttons"} => wt_elapsed <= 120)
    /\ [](wt_pc = "download" => wt_elapsed <= 60)
    /\ [](wt_k <= Len(download_selectors) + 1)
    /\ \A i \in 1..MaxWtImages :
           (wt_pc = "navigate" /\ wt_i = i) ~> (wt_pc = "psi_returned" /\ wt_i = i)
    /\ <>(wt_pc = "pmi_returned")
    /\ [](wt_pc = "pmi_returned" => wt_iters = wt_n)

\* C23 witness: the site never showed a download button for the first image
\* and never delivered the file of the second one, and the batch is over
C23_Witness ==
    /\ wt_pc = "pmi_returned"
    /\ wt_n = 2
    /\ wt_iters = 2
    /\ wt_processed = 0
    /\ wt_button >= 1
    /\ wt_ret = "none"

\* C24: wait_for_processing_completion probes the download selectors only
\* after the wait for every indicator it found displayed has ended, in list
\* order from the first; it returns the element of the first selector found
\* clickable, having skipped the ones that timed out or are invalid, and None
\* only after every selector of the list gave nothing.
C24_FirstClickableSelector ==
    /\ wt_tried # <<>> => wt_waited = wt_shown
    /\ \A j \in 1..Len(wt_tried) : wt_tried[j] = j
    /\ wt_button >= 1 =>
           /\ Len(wt_tried) = wt_button
           /\ wt_match = wt_button
           /\ wt_ready
           /\ download_selectors[wt_button] \notin InvalidSelectors
    /\ wt_button = 0 => Len(wt_tried) = Len(download_selectors)
    /\ wt_button = -1 => wt_pc \notin {"popups2", "download"}

\* C24 witness: two indicators were waited for, the first selectors timed out
\* or were invalid, and the last one of the list gave the button
C24_Witness ==
    /\ wt_shown = 2
    /\ wt_waited = 2
    /\ wt_button = Len(download_selectors)
    /\ wt_pc = "popups2"

\* C25: with pdf2image, convert_pdf_to_images returns either the empty list or
\* one path per page of the PDF, in page order, the k-th named
\* <stem>_page_<k as three digits>.<format in lower case> and holding page k
\* rendered at the converter's dpi; a failed rendering or save gives the
\* empty list, never a part of the pages.
C25_OnePathPerPageOrNone ==
    (cv_pc \in {"finally", "returned"} /\ cv_available /\ cv_ret # <<>>) =>
        /\ Len(cv_ret) = cv_pages
        /\ \A k \in 1..Len(cv_ret) :
               /\ cv_ret[k].page = k
               /\ cv_ret[k].dpi = cv_dpi
               /\ cv_ret[k].name =
                      <<97>> \o <<95, 112, 97, 103, 101, 95, 48, 48, 48 + k>>
                      \o (IF cv_format = "PNG" THEN <<46, 112, 110, 103>>
                          ELSE <<46, 106, 112, 101, 103>>)

\* C25 witness: a PDF of two pages was converted with pdf2image to JPEG files
\* and both paths were returned
C25_Witness ==
    /\ cv_pc = "returned"
    /\ cv_available
    /\ cv_format = "JPEG"
    /\ Len(cv_ret) = 2
    /\ cv_ret[2].page = 2

====
